---- MODULE Spec2Model ----
(***************************************************************************)
(* A model of the JPEG metadata extractor: the segment scanner             *)
(* (exiferino.segment_map), the segment classifier (jpegdata.seginfo),     *)
(* the byte-order aware decoder (ExifDecoder, exifdata_tostring), the IFD  *)
(* walker (read_ifd, read_app1_exif) and the XMP flattening loop           *)
(* (read_app1_xmp).                                                        *)
(*                                                                         *)
(* Bytes are the integers 0..255, a byte string is a sequence of bytes, a  *)
(* Python str is a TLA+ string, a file is the sequence of its bytes and a  *)
(* file position counts bytes from 0.                                      *)
(***************************************************************************)
EXTENDS Integers, Sequences, FiniteSets, TLC

VARIABLES
    file,        \* the bytes of the open file
    pos,         \* the file handle's position (tell())
    pc,          \* where the running function stands
    segments,    \* segment_map: the list of (tag, offset) tuples
    seg_mark,    \* segment_map: the marker bytes read by this iteration
    seg_id,      \* segment_map: seginfo(seg_mark)['name']
    retval,      \* the value returned by the function; before the return
                 \* an empty list in the scanner and "none" elsewhere
    diag,        \* what has been printed (segment_map prints nothing)
    readlog,     \* history: <<first, past-last>> of the bytes each read() got
    marklog,     \* history: <<marker, offset>> of each marker the loop read
    endcause,    \* history: which break ended the loop, "stop" or "eof"
    layout,      \* the (tag, offset) of the pieces the file was built from
    shape        \* how the file was built: "wellformed" (SOI, known segments,
                 \* SOS/EOI, nothing cut short), "truncated" (known segments,
                 \* ends before the marker of an SOS/EOI) or "other"

VARIABLES
    seg_offset,    \* read_app1_exif: the offset of the APP1 segment
    tiff_header,   \* read_app1_exif: the offset of the TIFF header
    byte_order,    \* read_app1_exif: the byte alignment bytes of the header
    offset_ifd,    \* read_app1_exif: the offset of the next IFD to read
    subifd_queue,  \* read_app1_exif: the deque of sub-IFD offsets
    meta_dict,     \* the metadata dictionary, a function from keys to tuples
    directory_entries, \* read_ifd: the passes of the for loop still to run
    ifd_loop,      \* read_app1_exif: the loop that called read_ifd, "main"
                   \* or "sub"
    walklog        \* history: <<"main", o>>, <<"sub", o>> for a read_ifd call
                   \* at IFD offset o, <<"pop", o>> for a popleft() giving o

VARIABLES
    xmp_children,  \* read_app1_xmp: the elements that the parsed packet's
                   \* iter() yields, each with its tag and its text
    xmp_done       \* read_app1_xmp: the number of elements the loop has had

VARIABLES
    stored_bytes,  \* the byte string handed to decode_bytes, exifdata_tostring
    datatype,      \* exifdata_tostring: the Exif datatype code
    bytealign      \* ExifDecoder: the byte alignment bytes, b'II' or b'MM'

VARIABLES
    seg_index      \* readmeta: the number of entries of segment_list that the
                   \* for loop has taken

VARIABLES
    seg_list       \* jpegsegments.segment_list: the list of segment
                   \* dictionaries

scanvars == <<segments, seg_mark, seg_id, readlog, marklog, endcause, layout,
              shape>>

decvars == <<stored_bytes, datatype, bytealign>>

exifvars == <<seg_offset, tiff_header, byte_order, offset_ifd, subifd_queue,
              meta_dict, directory_entries, ifd_loop, walklog>>

xmpvars == <<xmp_children, xmp_done>>

metavars == <<seg_index>>

listvars == <<seg_list>>

vars == <<file, pos, pc, retval, diag, scanvars, decvars, exifvars, xmpvars,
          metavars, listvars>>

\* the for loop of readmeta while no readmeta runs
MetaIdle == seg_index = 0

\* the list of jpegsegments.segment_list while another function runs
ListIdle == seg_list = <<>>

\* the variables of the Exif reader while another function runs
ExifIdle ==
    /\ seg_offset = 0 /\ tiff_header = 0 /\ byte_order = <<>>
    /\ offset_ifd = <<>> /\ subifd_queue = <<>> /\ meta_dict = <<>>
    /\ directory_entries = 0 /\ ifd_loop = "" /\ walklog = <<>>

\* the variables of the decoder while another function runs
DecIdle == stored_bytes = <<>> /\ datatype = 0 /\ bytealign = <<>>

\* the variables of the XMP reader while another function runs
XmpIdle == xmp_children = <<>> /\ xmp_done = 0

\* the variables of the scanner while another function runs
ScanIdle ==
    /\ segments = <<>> /\ seg_mark = <<>>
    /\ seg_id = "" /\ readlog = <<>> /\ marklog = <<>> /\ endcause = "none"
    /\ layout = <<>> /\ shape = "other"

-----------------------------------------------------------------------------
(* Byte strings and the file handle                                         *)

Min(a, b) == IF a < b THEN a ELSE b

Last(s) == s[Len(s)]

\* bytes[:n]
Prefix(s, n) == SubSeq(s, 1, Min(n, Len(s)))

\* what filehandle.read(n) returns at position p
Read(f, p, n) == IF p >= Len(f) THEN <<>> ELSE SubSeq(f, p + 1, Min(p + n, Len(f)))

\* a mutant of the read that leaves the position where it was
AfterRead_stuck(f, p, n) == p + 0 * n * Len(f)

\* the position after that read
AfterRead(f, p, n) == p + Len(Read(f, p, n))

\* the log entry of that read: the bytes [first, past-last) it returned
ReadSpan(f, p, n) == <<p, AfterRead(f, p, n)>>

\* a mutant of the unpacking that takes the low byte first, as '<H' does
UnpackBE16_little(b) == b[1] + b[2] * 256

\* struct.unpack('>H', b)[0] of a 2-byte string
UnpackBE16(b) == b[1] * 256 + b[2]

\* the 2-byte big-endian form of n, as a JPEG file stores a length
BE16(n) == <<n \div 256, n % 256>>

-----------------------------------------------------------------------------
(* jpegdata.seginfo                                                         *)

HexDigit == <<"0", "1", "2", "3", "4", "5", "6", "7",
              "8", "9", "a", "b", "c", "d", "e", "f">>

\* '{:02x}'.format(char)
Hex02(b) == HexDigit[(b \div 16) + 1] \o HexDigit[(b % 16) + 1]

RECURSIVE HexName(_)
HexName(m) == IF m = <<>> THEN "" ELSE Hex02(m[1]) \o HexName(Tail(m))

SegRow(b, n, d, m) == [mark |-> <<255, b>>, name |-> n, has_data |-> d, has_meta |-> m]

segdata ==
    { SegRow(1, "ff01", FALSE, FALSE),
      SegRow(224, "APP0", TRUE, TRUE),   SegRow(225, "APP1", TRUE, TRUE),
      SegRow(226, "APP2", TRUE, TRUE),   SegRow(227, "APP3", TRUE, TRUE),
      SegRow(228, "APP4", TRUE, TRUE),   SegRow(229, "APP5", TRUE, TRUE),
      SegRow(230, "APP6", TRUE, TRUE),   SegRow(231, "APP7", TRUE, TRUE),
      SegRow(232, "APP8", TRUE, TRUE),   SegRow(233, "APP9", TRUE, TRUE),
      SegRow(234, "APP10", TRUE, TRUE),  SegRow(235, "APP11", TRUE, TRUE),
      SegRow(236, "APP12", TRUE, TRUE),  SegRow(237, "APP13", TRUE, TRUE),
      SegRow(238, "APP14", TRUE, TRUE),  SegRow(239, "APP15", TRUE, TRUE),
      SegRow(254, "COM", TRUE, FALSE),   SegRow(196, "DHT", TRUE, FALSE),
      SegRow(219, "DQT", TRUE, FALSE),   SegRow(221, "DRI", TRUE, FALSE),
      SegRow(217, "EOI", FALSE, FALSE),
      SegRow(208, "RST0", FALSE, FALSE), SegRow(209, "RST1", FALSE, FALSE),
      SegRow(210, "RST2", FALSE, FALSE), SegRow(211, "RST3", FALSE, FALSE),
      SegRow(212, "RST4", FALSE, FALSE), SegRow(213, "RST5", FALSE, FALSE),
      SegRow(214, "RST6", FALSE, FALSE), SegRow(215, "RST7", FALSE, FALSE),
      SegRow(192, "SOF0", TRUE, FALSE),  SegRow(194, "SOF2", TRUE, FALSE),
      SegRow(216, "SOI", FALSE, FALSE),  SegRow(218, "SOS", TRUE, FALSE) }

seginfo(segment_marker) ==
    IF \E r \in segdata : r.mark = segment_marker
    THEN LET r == CHOOSE r \in segdata : r.mark = segment_marker
         IN  [name |-> r.name, has_data |-> r.has_data, has_meta |-> r.has_meta]
    ELSE [name |-> HexName(segment_marker) \o "?",
          has_data |-> FALSE, has_meta |-> FALSE]

-----------------------------------------------------------------------------
(* The APP1 identifiers segment_map compares against                        *)

\* b'Exif\x00\x00'
ExifId == <<69, 120, 105, 102, 0, 0>>

\* b'http://ns.adobe.com/xap/1.0/\x00'
XmpId == <<104, 116, 116, 112, 58, 47, 47, 110, 115, 46, 97, 100, 111, 98,
           101, 46, 99, 111, 109, 47, 120, 97, 112, 47, 49, 46, 48, 47, 0>>

\* b'http://ns.adobe.com/xmp/extension/\x00'
XmpExtId == <<104, 116, 116, 112, 58, 47, 47, 110, 115, 46, 97, 100, 111, 98,
              101, 46, 99, 111, 109, 47, 120, 109, 112, 47, 101, 120, 116,
              101, 110, 115, 105, 111, 110, 47, 0>>

\* the if/elif chain of segment_map on id_str: a mutant that compares the
\* XMP identifier without its terminating NUL
App1Tag_noNul(id_str) ==
    IF Prefix(id_str, 6) = ExifId THEN "APP1-Exif"
    ELSE IF Prefix(id_str, 28) = Prefix(XmpId, 28) THEN "APP1-XMP"
    ELSE IF Prefix(id_str, 35) = XmpExtId THEN "APP1-XMPext"
    ELSE "APP1-unknown"

\* the if/elif chain of segment_map on id_str
App1Tag(id_str) ==
    IF Prefix(id_str, 6) = ExifId THEN "APP1-Exif"
    ELSE IF Prefix(id_str, 29) = XmpId THEN "APP1-XMP"
    ELSE IF Prefix(id_str, 35) = XmpExtId THEN "APP1-XMPext"
    ELSE "APP1-unknown"

\* a mutant of the EOF test that only notices an empty read
ShortRead_empty(b) == Len(b) = 0

\* len(seg_mark) < 2, len(dsbytes) < 2
ShortRead(b) == Len(b) < 2

\* a mutant of the stop test that forgets SOS
IsStop_noSOS(id) == id = "EOI"

\* seg_id == 'EOI' or seg_id == 'SOS'
IsStop(id) == id = "EOI" \/ id = "SOS"

\* the markers segment_map lists as having no payload
NoPayloadMarks == { <<255, 1>>, <<255, 208>>, <<255, 209>>, <<255, 210>>,
                    <<255, 211>>, <<255, 212>>, <<255, 213>>, <<255, 214>>,
                    <<255, 215>>, <<255, 216>>, <<255, 217>> }

\* a mutant that starts the scan at offset 0, so that SOI is recorded
StartOffset_zero == 2 - 2

\* filehandle.seek(2, 0): the first segment starts right after the SOI
StartOffset == 2

-----------------------------------------------------------------------------
(* The files the scanner is run on: SOI, up to MaxSegs segments taken from  *)
(* Chunks, then SOS with scan data and EOI, or EOI alone, or nothing; the   *)
(* file may end at any byte of its last piece, which covers every           *)
(* truncation of every such file.                                           *)

MaxSegs == 2

\* a segment with a length field: marker, 2-byte length, payload
Seg(b, payload) == <<255, b>> \o BE16(Len(payload) + 2) \o payload

Piece(bs, t, ok) == [bytes |-> bs, tag |-> t, wf |-> ok]

SOIPiece == Piece(<<255, 216>>, "SOI", TRUE)

Chunks ==
    { \* APP0 with a JFIF header
      Piece(Seg(224, <<74, 70, 73, 70, 0, 1, 1, 0, 0, 1, 0, 1, 0, 0>>), "APP0", TRUE),
      \* APP1 Exif: identifier, little-endian TIFF header, an empty IFD0
      Piece(Seg(225, ExifId \o <<73, 73, 42, 0, 8, 0, 0, 0, 0, 0, 0, 0, 0, 0>>),
            "APP1-Exif", TRUE),
      \* APP1 XMP and XMP Extended: identifier and two more bytes
      Piece(Seg(225, XmpId \o <<60, 63>>), "APP1-XMP", TRUE),
      Piece(Seg(225, XmpExtId \o <<60, 63>>), "APP1-XMPext", TRUE),
      \* APP1 with near misses of the identifiers, and an empty APP1
      Piece(Seg(225, <<69, 120, 105, 102, 0, 1, 73, 73>>), "APP1-unknown", TRUE),
      Piece(Seg(225, Prefix(XmpId, 28) \o <<32, 60, 63>>), "APP1-unknown", TRUE),
      Piece(Seg(225, Prefix(XmpExtId, 34) \o <<32, 60, 63>>), "APP1-unknown", TRUE),
      Piece(Seg(225, <<>>), "APP1-unknown", TRUE),
      \* a quantization table, a restart marker, a second SOI
      Piece(Seg(219, <<1, 2>>), "DQT", TRUE),
      Piece(<<255, 208>>, "RST0", TRUE),
      Piece(<<255, 216>>, "SOI", TRUE),
      \* not well formed: comments whose length field is 0 or 1, and SOF1, a
      \* marker seginfo does not know
      Piece(<<255, 254, 0, 0>>, "COM", FALSE),
      Piece(<<255, 254, 0, 1>>, "COM", FALSE),
      Piece(Seg(193, <<8, 0>>), "ffc1?", FALSE) }

Terminals ==
    { Piece(Seg(218, <<1, 2>>) \o <<17, 34, 255, 217>>, "SOS", TRUE),
      Piece(<<255, 217>>, "EOI", TRUE) }

\* the sequences of at most n chunks
RECURSIVE ChunkSeqs(_)
ChunkSeqs(n) ==
    IF n = 0 THEN { <<>> }
    ELSE LET shorter == ChunkSeqs(n - 1)
         IN  shorter \cup { Append(s, c) : s \in { t \in shorter : Len(t) = n - 1 },
                                           c \in Chunks }

\* the sequences of pieces of the files
PieceSeqs ==
    { <<SOIPiece>> \o cs : cs \in ChunkSeqs(MaxSegs) }
    \cup { <<SOIPiece>> \o cs \o <<t>> : cs \in ChunkSeqs(MaxSegs), t \in Terminals }

RECURSIVE Concat(_)
Concat(ps) == IF ps = <<>> THEN <<>> ELSE ps[1].bytes \o Concat(Tail(ps))

\* the offset of piece i
PieceOffset(ps, i) == Len(Concat(SubSeq(ps, 1, i - 1)))

\* the (tag, offset) of every piece
LayoutOf(ps) == [i \in 1..Len(ps) |-> <<ps[i].tag, PieceOffset(ps, i)>>]

\* where a file built from ps may end: at any byte of its last piece, and a
\* file of SOI alone also before its first byte
Cuts(ps) ==
    (IF Len(ps) = 1 THEN 0 ELSE PieceOffset(ps, Len(ps)) + 1)..Len(Concat(ps))

ShapeOf(ps, cut) ==
    LET n      == Len(ps)
        known  == \A i \in 1..n : ps[i].wf
        ended  == n > 1 /\ ps[n] \in Terminals
    IN  IF known /\ ended /\ cut = Len(Concat(ps)) THEN "wellformed"
        ELSE IF known /\ (~ended \/ cut < PieceOffset(ps, n) + 2) THEN "truncated"
        ELSE "other"

Init ==
    \E ps \in PieceSeqs :
      \E cut \in Cuts(ps) :
        /\ file = SubSeq(Concat(ps), 1, cut)
        /\ layout = LayoutOf(ps)
        /\ shape = ShapeOf(ps, cut)
        /\ pos = 0
        /\ pc = "start"
        /\ segments = <<>>
        /\ seg_mark = <<>>
        /\ seg_id = ""
        /\ retval = <<>>
        /\ diag = <<>>
        /\ readlog = <<>>
        /\ marklog = <<>>
        /\ endcause = "none"
        /\ DecIdle
        /\ ExifIdle
        /\ XmpIdle
        /\ MetaIdle
        /\ ListIdle

-----------------------------------------------------------------------------
(* exiferino.segment_map                                                    *)

\* segments = []; filehandle.seek(2, 0)
SeekStart ==
    /\ pc = "start"
    /\ pos' = StartOffset
    /\ pc' = "loop"
    /\ UNCHANGED <<file, segments, seg_mark, seg_id, retval, diag, readlog,
                   marklog, endcause, layout, shape, decvars,
                   metavars, listvars, xmpvars, exifvars>>

\* seg_mark = filehandle.read(2); the EOF break; seg_id; the append of a
\* segment that is not APP1
ReadMarker ==
    /\ pc = "loop"
    /\ LET mark == Read(file, pos, 2)
           id   == seginfo(mark).name
       IN  /\ seg_mark' = mark
           /\ readlog' = Append(readlog, ReadSpan(file, pos, 2))
           /\ pos' = AfterRead(file, pos, 2)
           /\ IF ShortRead(mark)
              THEN /\ pc' = "done"
                   /\ endcause' = "eof"
                   /\ UNCHANGED <<seg_id, segments, marklog>>
              ELSE /\ seg_id' = id
                   /\ marklog' = Append(marklog, <<mark, pos>>)
                   /\ endcause' = endcause
                   /\ IF id = "APP1"
                      THEN pc' = "probe" /\ segments' = segments
                      ELSE /\ pc' = "check"
                           /\ segments' = Append(segments, <<id, pos' - 2>>)
    /\ UNCHANGED <<file, retval, diag, layout, shape, decvars,
                   metavars, listvars, xmpvars, exifvars>>

\* the APP1 branch: filepos = tell(); read(2); id_str = read(35); the append
\* of the variant; seek(filepos, 0)
ProbeApp1 ==
    /\ pc = "probe"
    /\ LET filepos == pos
           p1      == AfterRead(file, filepos, 2)
           id_str  == Read(file, p1, 35)
       IN  /\ readlog' = readlog \o <<ReadSpan(file, filepos, 2), ReadSpan(file, p1, 35)>>
           /\ segments' = Append(segments, <<App1Tag(id_str), filepos - 2>>)
           /\ pos' = filepos
    /\ pc' = "check"
    /\ UNCHANGED <<file, seg_mark, seg_id, retval, diag, marklog, endcause,
                   layout, shape, decvars, metavars, listvars, xmpvars, exifvars>>

\* if seg_id == 'EOI' or seg_id == 'SOS': break
CheckStop ==
    /\ pc = "check"
    /\ IF IsStop(seg_id)
       THEN pc' = "done" /\ endcause' = "stop"
       ELSE pc' = "skip" /\ endcause' = endcause
    /\ UNCHANGED <<file, pos, segments, seg_mark, seg_id, retval, diag, readlog,
                   marklog, layout, shape, decvars, metavars, listvars, xmpvars, exifvars>>

\* the no-payload list, else dsbytes = read(2), the EOF break,
\* struct.unpack('>H', dsbytes), which raises unless it gets 2 bytes, and
\* filehandle.seek(datasize-2, 1), which raises if it would seek below 0
SkipPayload ==
    /\ pc = "skip"
    /\ IF seg_mark \in NoPayloadMarks
       THEN /\ pc' = "loop"
            /\ UNCHANGED <<pos, readlog, endcause>>
       ELSE LET dsbytes == Read(file, pos, 2)
                p1      == AfterRead(file, pos, 2)
            IN  /\ readlog' = Append(readlog, ReadSpan(file, pos, 2))
                /\ IF ShortRead(dsbytes)
                   THEN pos' = p1 /\ pc' = "done" /\ endcause' = "eof"
                   ELSE IF Len(dsbytes) # 2
                   THEN pos' = p1 /\ pc' = "raised" /\ endcause' = endcause
                   ELSE LET datasize == UnpackBE16(dsbytes)
                        IN  /\ endcause' = endcause
                            /\ IF p1 + datasize - 2 < 0
                               THEN pos' = p1 /\ pc' = "raised"
                               ELSE pos' = p1 + datasize - 2 /\ pc' = "loop"
    /\ UNCHANGED <<file, segments, seg_mark, seg_id, retval, diag, marklog,
                   layout, shape, decvars, metavars, listvars, xmpvars, exifvars>>

\* return segments
Return ==
    /\ pc = "done"
    /\ pc' = "returned"
    /\ retval' = segments
    /\ UNCHANGED <<file, pos, segments, seg_mark, seg_id, diag, readlog, marklog,
                   endcause, layout, shape, decvars, metavars, listvars, xmpvars, exifvars>>

Next == SeekStart \/ ReadMarker \/ ProbeApp1 \/ CheckStop \/ SkipPayload \/ Return

Spec == Init /\ [][Next]_vars

-----------------------------------------------------------------------------
(* Claims about segment_map                                                 *)

StopTags == {"SOS", "EOI"}

\* the bytes of s stand in f at offset p (counted from 0)
HasAt(f, p, s) == /\ p + Len(s) <= Len(f)
                  /\ \A k \in 1..Len(s) : f[p + k] = s[k]

\* the variant of the APP1 segment whose marker is at offset off, read off
\* the file: the identifier starts after the marker and the length field
App1Expected(f, off) ==
    CASE HasAt(f, off + 4, ExifId) -> "APP1-Exif"
      [] ~HasAt(f, off + 4, ExifId) /\ HasAt(f, off + 4, XmpId) -> "APP1-XMP"
      [] ~HasAt(f, off + 4, ExifId) /\ ~HasAt(f, off + 4, XmpId)
           /\ HasAt(f, off + 4, XmpExtId) -> "APP1-XMPext"
      [] OTHER -> "APP1-unknown"

\* the entries of the layout from the n-th on whose marker lies whole in the
\* file, an APP1 piece under the variant its bytes in the file show
RECURSIVE Present(_, _, _)
Present(lay, f, n) ==
    IF n > Len(lay) \/ lay[n][2] + 2 > Len(f) THEN <<>>
    ELSE <<IF f[lay[n][2] + 2] = 225
           THEN <<App1Expected(f, lay[n][2]), lay[n][2]>>
           ELSE lay[n]>> \o Present(lay, f, n + 1)

\* C1 as stated: on a well-formed stream SOI, s1, ..., sn, T the scanner
\* returns [SOI, s1, ..., sn, T], the SOI at offset 0 first.
C1_ReturnsSOIFirst ==
    (pc = "returned" /\ shape = "wellformed") => retval = layout

\* C1 as amended: on a well-formed stream SOI, s1, ..., sn, T the scanner
\* returns exactly [s1, ..., sn, T] in file order with their offsets; the SOI
\* at offset 0 is skipped, not recorded, and T is the last element.
C1_ReturnsSegmentsAfterSOI ==
    (pc = "returned" /\ shape = "wellformed") =>
        /\ retval = Tail(layout)
        /\ layout[1] = <<"SOI", 0>>
        /\ Last(retval)[1] \in StopTags

\* the example of the spec, SOI APP0 SOS EOI, has been scanned
C1_Witness ==
    /\ pc = "returned"
    /\ shape = "wellformed"
    /\ layout = <<<<"SOI", 0>>, <<"APP0", 2>>, <<"SOS", 20>>>>
    /\ retval = <<<<"APP0", 2>>, <<"SOS", 20>>>>

\* the scan has stopped at the marker at offset o: it is recorded last, it is
\* the first SOS/EOI recorded, and the read of its 2 bytes is the last read
StoppedAt(o) ==
    LET n == Len(segments)
    IN  /\ endcause = "stop"
        /\ pc \in {"done", "returned"}
        /\ n > 0
        /\ segments[n][2] = o
        /\ segments[n][1] \in StopTags
        /\ \A i \in 1..(n - 1) : segments[i][1] \notin StopTags
        /\ Last(readlog) = <<o, o + 2>>
        /\ pos = o + 2

\* C2 as stated: the first marker classified SOS or EOI is recorded and is
\* last, no read follows it, and no byte after that marker is ever read.
C2_NothingReadPastStop ==
    /\ \A i \in 1..Len(marklog) :
          marklog[i][1] \in {<<255, 218>>, <<255, 217>>} =>
              /\ i = Len(marklog)
              /\ pc = "check" \/ StoppedAt(marklog[i][2])
    /\ endcause = "stop" =>
          \A i \in 1..Len(readlog) : readlog[i][2] <= Last(segments)[2] + 2

\* C2 as amended: the first marker classified SOS or EOI is recorded and is
\* the last element of the list, and after recording it the scanner performs
\* no further read, not even of the segment's length field. (Bytes after the
\* marker may have been read before, by the 37-byte probe of an earlier APP1.)
C2_StopIsLastAndNoReadFollows ==
    /\ \A i \in 1..Len(marklog) :
          marklog[i][1] \in {<<255, 218>>, <<255, 217>>} =>
              /\ i = Len(marklog)
              /\ pc = "check" \/ StoppedAt(marklog[i][2])
    /\ endcause = "stop" => StoppedAt(Last(marklog)[2])

\* a scan has recorded a segment and then stopped at SOS
C2_Witness ==
    /\ pc = "returned"
    /\ endcause = "stop"
    /\ Len(retval) >= 2
    /\ Last(retval)[1] = "SOS"
    /\ Len(file) > Last(retval)[2] + 2

C4_TruncationIsIndicated ==
    /\ pc # "raised"
    /\ (pc = "returned" /\ shape = "truncated") =>
          /\ retval = Present(layout, file, 2)
          /\ diag # <<>>

\* C4 as amended: on a stream that ends early the scanner returns without
\* raising and returns exactly the segments whose marker lies before the end
\* (none for a file cut right after SOI); it gives no explicit indication:
\* nothing is printed and only the list is returned, which differs from a
\* normal stop in that it is empty or does not end with SOS or EOI.
C4_TruncationIsSilent ==
    /\ pc # "raised"
    /\ (pc = "returned" /\ shape = "truncated") =>
          /\ endcause = "eof"
          /\ retval = Present(layout, file, 2)
          /\ diag = <<>>
    /\ (pc = "returned" /\ file = <<255, 216>>) => retval = <<>>
    /\ pc = "returned" =>
          (endcause = "eof" <=> (retval = <<>> \/ Last(retval)[1] \notin StopTags))

\* a scan of a file cut inside a payload has returned the segments before it
C4_Witness ==
    /\ pc = "returned"
    /\ shape = "truncated"
    /\ endcause = "eof"
    /\ Len(retval) = 2
    /\ Len(file) > Last(retval)[2] + 4

-----------------------------------------------------------------------------
(* Python values. An int n is held as two 16-bit halves <<hi, lo>> with     *)
(* n = hi * 65536 + lo, so that every unsigned 32-bit value has its own     *)
(* representation; a str is a TLA+ string.                                  *)

PyInt(hi, lo) == [t |-> "int", v |-> <<hi, lo>>]

PyNone == [t |-> "none", v |-> <<>>]

PyStr(s) == [t |-> "str", v |-> s]

DigitStr == <<"0", "1", "2", "3", "4", "5", "6", "7", "8", "9">>

\* str(n) of the int n = hi * 65536 + lo: its decimal digits, by division
RECURSIVE DecStr(_, _)
DecStr(hi, lo) ==
    IF hi = 0 /\ lo < 10 THEN DigitStr[lo + 1]
    ELSE LET mid == (hi % 10) * 65536 + lo
         IN  DecStr(hi \div 10, mid \div 10) \o DigitStr[(mid % 10) + 1]

\* str(x)
str(x) ==
    CASE x.t = "int"  -> DecStr(x.v[1], x.v[2])
      [] x.t = "none" -> "None"
      [] x.t = "str"  -> x.v

\* bytes[a:b]
Slice(bs, a, b) == SubSeq(bs, a + 1, Min(b, Len(bs)))

\* the characters chr(32) .. chr(126); the backquote, which no TLA+ string
\* can hold, is written as its \x escape
Printable ==
    <<" ", "!", "\"", "#", "$", "%", "&", "'", "(", ")", "*", "+", ",",
      "-", ".", "/", "0", "1", "2", "3", "4", "5", "6", "7", "8", "9", ":",
      ";", "<", "=", ">", "?", "@", "A", "B", "C", "D", "E", "F", "G", "H",
      "I", "J", "K", "L", "M", "N", "O", "P", "Q", "R", "S", "T", "U", "V",
      "W", "X", "Y", "Z", "[", "\\", "]", "^", "_", "\\x60", "a", "b", "c",
      "d", "e", "f", "g", "h", "i", "j", "k", "l", "m", "n", "o", "p", "q",
      "r", "s", "t", "u", "v", "w", "x", "y", "z", "{", "|", "}", "~">>

\* chr(c) for c < 128; a control character other than tab, newline, form
\* feed and return is written as its \x escape
chr(c) ==
    CASE c >= 32 /\ c <= 126 -> Printable[c - 31]
      [] c = 9  -> "\t"
      [] c = 10 -> "\n"
      [] c = 12 -> "\f"
      [] c = 13 -> "\r"
      [] OTHER  -> "\\x" \o Hex02(c)

\* the body of repr(bytes) between its quotes, q being the quote in use
RECURSIVE ReprBody(_, _)
ReprBody(bs, q) ==
    IF bs = <<>> THEN ""
    ELSE LET c == bs[1]
             e == CASE c = 92 -> "\\\\"
                    [] c = 9  -> "\\t"
                    [] c = 10 -> "\\n"
                    [] c = 13 -> "\\r"
                    [] c = 39 /\ q = "'" -> "\\'"
                    [] c >= 32 /\ c <= 126 /\ c # 92 /\ ~(c = 39 /\ q = "'")
                         -> Printable[c - 31]
                    [] OTHER -> "\\x" \o Hex02(c)
         IN  e \o ReprBody(Tail(bs), q)

\* str(stored_bytes) of a bytes object: b'...' (b"..." when the bytes hold a
\* single quote and no double quote)
BytesRepr(bs) ==
    LET has(c) == \E i \in 1..Len(bs) : bs[i] = c
        q      == IF has(39) /\ ~has(34) THEN "\"" ELSE "'"
    IN  "b" \o q \o ReprBody(bs, q) \o q

-----------------------------------------------------------------------------
(* exiferino.ExifDecoder                                                    *)

II == <<73, 73>>

MM == <<77, 77>>

\* a mutant of set_byteorder that always decodes little-endian
ByteOrder_alwaysLittle(align) == "<"

\* set_byteorder: self.byteorder = '<' if bytealign == b'II' else '>'
ByteOrder(align) == IF align = II THEN "<" ELSE ">"

\* set_byteorder: the warning printed for any other alignment
ByteOrderWarning(align) ==
    IF align \notin {II, MM}
    THEN <<"WARNING: invalid endian setting in ExifDecoder">>
    ELSE <<>>

\* struct.unpack(byteorder + 'H', b)[0]
UnpackH(order, b) ==
    IF order = "<" THEN PyInt(0, b[1] + 256 * b[2]) ELSE PyInt(0, 256 * b[1] + b[2])

\* struct.unpack(byteorder + 'I', b)[0]
UnpackI(order, b) ==
    IF order = "<" THEN PyInt(b[3] + 256 * b[4], b[1] + 256 * b[2])
    ELSE PyInt(256 * b[1] + b[2], 256 * b[3] + b[4])

InvalidByteString == "Invalid byte string passed to ExifDecoder"

\* decode_bytes: the value returned and what it prints; the else branch
\* prints and falls off the end of the function, which returns None
decode_bytes(order, byte_string) ==
    CASE Len(byte_string) = 0 -> [val |-> PyInt(0, 0), out |-> <<>>]
      [] Len(byte_string) = 2 -> [val |-> UnpackH(order, byte_string), out |-> <<>>]
      [] Len(byte_string) = 4 -> [val |-> UnpackI(order, byte_string), out |-> <<>>]
      [] OTHER -> [val |-> PyNone, out |-> <<InvalidByteString>>]

-----------------------------------------------------------------------------
(* exiferino.exifdata_tostring: what it returns or raises, and what the     *)
(* decoder prints meanwhile                                                 *)

Returns(x, msgs) == [kind |-> "return", val |-> x, out |-> msgs]

Raises(e, msgs) == [kind |-> "raise", val |-> PyStr(e), out |-> msgs]

\* str(decoder.decode_bytes(stored_bytes[a:b]))
DecodedStr(order, bs, a, b) ==
    LET d == decode_bytes(order, Slice(bs, a, b))
    IN  Returns(PyStr(str(d.val)), d.out)

\* str(numerator) + '/' + str(denominator)
RationalStr(order, bs) ==
    LET n == decode_bytes(order, Slice(bs, 0, 4))
        d == decode_bytes(order, Slice(bs, 4, 8))
    IN  Returns(PyStr(str(n.val) \o "/" \o str(d.val)), n.out \o d.out)

\* ''.join(chr(byte & 0b01111111) for byte in stored_bytes)
RECURSIVE AsciiStr(_)
AsciiStr(bs) == IF bs = <<>> THEN "" ELSE chr(bs[1] % 128) \o AsciiStr(Tail(bs))

exifdata_tostring(bs, dt, order) ==
    CASE dt = 1 -> IF Len(bs) = 1 THEN Returns(PyStr(DecStr(0, bs[1])), <<>>)
                   ELSE Raises("struct.error", <<>>)
      [] dt = 2 -> Returns(PyStr(AsciiStr(bs)), <<>>)
      [] dt = 3 -> DecodedStr(order, bs, 0, 2)
      [] dt = 4 -> DecodedStr(order, bs, 0, 4)
      [] dt = 5 -> RationalStr(order, bs)
      [] dt = 6 -> IF Len(bs) = 0 THEN Raises("IndexError", <<>>)
                   ELSE Raises("TypeError", <<>>)
      [] dt = 7 -> IF Len(bs) = 0 THEN Raises("IndexError", <<>>)
                   ELSE Returns(PyInt(0, bs[1]), <<>>)
      [] dt = 8 -> DecodedStr(order, bs, 0, 2)
      [] dt = 9 -> DecodedStr(order, bs, 0, 4)
      [] dt = 10 -> RationalStr(order, bs)
      [] OTHER -> Returns(PyStr(BytesRepr(bs)), <<>>)

-----------------------------------------------------------------------------
(* The decoder on its own: a decoder is built for a byte alignment, then    *)
(* either decode_bytes or exifdata_tostring is called on a byte string.     *)

MaxBytes == 5

ByteVals == {0, 1, 128, 255}

\* the byte strings of exactly n bytes, and of at most n bytes
RECURSIVE BytesOfLen(_)
BytesOfLen(n) ==
    IF n = 0 THEN { <<>> }
    ELSE { Append(b, x) : b \in BytesOfLen(n - 1), x \in ByteVals }

ByteStrings(n) == UNION { BytesOfLen(k) : k \in 0..n }

\* some 8-byte values, as RATIONAL and SRATIONAL have them
LongValues ==
    { <<1, 0, 0, 0, 2, 0, 0, 0>>, <<255, 255, 255, 255, 0, 0, 0, 1>>,
      <<0, 0, 0, 128, 255, 255, 255, 127>> }

\* the datatype codes: those of Exif 2.3 and two that it does not define
DataTypes == 0..11

InitDecode ==
    /\ stored_bytes \in ByteStrings(MaxBytes) \cup LongValues
    /\ datatype \in DataTypes
    /\ bytealign \in {II, MM, <<0, 0>>}
    /\ pc = "decoder"
    /\ retval = "none"
    /\ diag = ByteOrderWarning(bytealign)
    /\ file = <<>>
    /\ pos = 0
    /\ ScanIdle
    /\ ExifIdle
    /\ XmpIdle
    /\ MetaIdle
    /\ ListIdle

\* decoder.decode_bytes(stored_bytes)
DecodeBytes ==
    /\ pc = "decoder"
    /\ LET d == decode_bytes(ByteOrder(bytealign), stored_bytes)
       IN  retval' = d.val /\ diag' = diag \o d.out
    /\ pc' = "decoded"
    /\ UNCHANGED <<file, pos, scanvars, decvars, metavars, listvars, xmpvars, exifvars>>

\* exifdata_tostring(stored_bytes, datatype, decoder)
Render ==
    /\ pc = "decoder"
    /\ LET r == exifdata_tostring(stored_bytes, datatype, ByteOrder(bytealign))
       IN  /\ retval' = r.val
           /\ diag' = diag \o r.out
           /\ pc' = IF r.kind = "raise" THEN "raised" ELSE "rendered"
    /\ UNCHANGED <<file, pos, scanvars, decvars, metavars, listvars, xmpvars, exifvars>>

NextDecode == DecodeBytes \/ Render

SpecDecode == InitDecode /\ [][NextDecode]_vars

-----------------------------------------------------------------------------
(* Claims about the decoder                                                 *)

\* the unsigned 16-bit value of bytes b[1], b[2] under an alignment
U16(align, b) == IF align = II THEN b[1] + 256 * b[2] ELSE 256 * b[1] + b[2]

\* the unsigned 32-bit value of bytes b[1] .. b[4] under an alignment, as
\* its two 16-bit halves <<high, low>>
U32(align, b) ==
    IF align = II THEN <<U16(II, <<b[3], b[4]>>), U16(II, <<b[1], b[2]>>)>>
    ELSE <<U16(MM, <<b[1], b[2]>>), U16(MM, <<b[3], b[4]>>)>>

DigitVal(ch) == CHOOSE d \in 0..9 : DigitStr[d + 1] = ch

\* s is a decimal numeral: digits only, no leading zero except "0" itself
IsDecimal(s) ==
    /\ Len(s) >= 1
    /\ \A i \in 1..Len(s) : \E d \in 0..9 : SubSeq(s, i, i) = DigitStr[d + 1]
    /\ Len(s) > 1 => SubSeq(s, 1, 1) # "0"

\* the number a decimal numeral denotes, as <<high, low>> halves, read digit
\* by digit from the left
RECURSIVE ParseDec(_, _, _)
ParseDec(s, hi, lo) ==
    IF s = "" THEN <<hi, lo>>
    ELSE LET low == lo * 10 + DigitVal(SubSeq(s, 1, 1))
         IN  ParseDec(SubSeq(s, 2, Len(s)), hi * 10 + low \div 65536, low % 65536)

\* the decimal numeral of the two's-complement value of 16 bits
Signed16Str(n) == IF n >= 32768 THEN "-" \o DecStr(0, 65536 - n) ELSE DecStr(0, n)

\* the decimal numeral of the two's-complement value of 32 bits <<hi, lo>>
Signed32Str(v) ==
    IF v[1] < 32768 THEN DecStr(v[1], v[2])
    ELSE IF v[2] = 0 THEN "-" \o DecStr(65536 - v[1], 0)
    ELSE "-" \o DecStr(65535 - v[1], 65536 - v[2])

\* C5: decode_bytes returns 0 for an empty input, the unsigned value of a
\* 2-byte or 4-byte input under the byte order, and for any other length it
\* reports an error and hands the caller no value that is then used as a
\* decoded integer: exifdata_tostring does not render it as the field's value.
C5_DecodeBytesContract ==
    /\ (pc = "decoded" /\ bytealign \in {II, MM}) =>
          /\ Len(stored_bytes) = 0 => retval = PyInt(0, 0)
          /\ Len(stored_bytes) = 2 => retval = PyInt(0, U16(bytealign, stored_bytes))
          /\ Len(stored_bytes) = 4 =>
                retval = PyInt(U32(bytealign, stored_bytes)[1],
                               U32(bytealign, stored_bytes)[2])
          /\ Len(stored_bytes) \notin {0, 2, 4} =>
                /\ \E i \in 1..Len(diag) : diag[i] = InvalidByteString
                /\ retval.t # "int"
    /\ (pc = "rendered" /\ bytealign \in {II, MM} /\ datatype \in {3, 4, 8, 9}) =>
          retval # PyStr("None")

\* C6: SHORT renders the decimal numeral of the unsigned 16-bit value of the
\* first 2 bytes under the active byte order, LONG that of the unsigned
\* 32-bit value of the first 4 bytes; 01 00 as SHORT is "1" little-endian
\* and "256" big-endian.
C6_UnsignedRendering ==
    (pc = "rendered" /\ bytealign \in {II, MM}) =>
        /\ (datatype = 3 /\ Len(stored_bytes) >= 2) =>
              /\ retval.t = "str"
              /\ IsDecimal(retval.v)
              /\ ParseDec(retval.v, 0, 0) = <<0, U16(bytealign, stored_bytes)>>
        /\ (datatype = 4 /\ Len(stored_bytes) >= 4) =>
              /\ retval.t = "str"
              /\ IsDecimal(retval.v)
              /\ ParseDec(retval.v, 0, 0) = U32(bytealign, stored_bytes)
        /\ (datatype = 3 /\ Slice(stored_bytes, 0, 2) = <<1, 0>>) =>
              retval = PyStr(IF bytealign = II THEN "1" ELSE "256")
        /\ (datatype = 4 /\ Slice(stored_bytes, 0, 4) = <<255, 255, 255, 255>>) =>
              retval = PyStr("4294967295")

\* the bytes 01 00 have been rendered as a big-endian SHORT
C6_Witness ==
    /\ pc = "rendered"
    /\ datatype = 3
    /\ bytealign = MM
    /\ stored_bytes = <<1, 0, 0, 0>>
    /\ retval = PyStr("256")

\* C7: SSHORT, SLONG and SRATIONAL render two's-complement signed values
\* under the active byte order: FF FF as SSHORT renders "-1", and SRATIONAL
\* renders two signed 32-bit values as "numerator/denominator".
C7_SignedRendering ==
    (pc = "rendered" /\ bytealign \in {II, MM}) =>
        /\ (datatype = 8 /\ Len(stored_bytes) >= 2) =>
              retval = PyStr(Signed16Str(U16(bytealign, stored_bytes)))
        /\ (datatype = 9 /\ Len(stored_bytes) >= 4) =>
              retval = PyStr(Signed32Str(U32(bytealign, stored_bytes)))
        /\ (datatype = 10 /\ Len(stored_bytes) >= 8) =>
              retval = PyStr(Signed32Str(U32(bytealign, Slice(stored_bytes, 0, 4)))
                             \o "/"
                             \o Signed32Str(U32(bytealign, Slice(stored_bytes, 4, 8))))

-----------------------------------------------------------------------------
(* jpegdata.exiftag and exiferino.read_ifd                                  *)

\* the entries of the tag table that jpegdata's own tests name
EXIF_TAGS ==
    [k \in {"256", "315", "36864", "37377", "37385"} |->
        CASE k = "256"   -> "ImageWidth"
          [] k = "315"   -> "Artist"
          [] k = "36864" -> "ExifVersion"
          [] k = "37377" -> "ShutterSpeedValue"
          [] k = "37385" -> "Flash"]

exiftag(tagno) ==
    LET tagno_str == str(tagno)
    IN  IF tagno_str \in DOMAIN EXIF_TAGS THEN EXIF_TAGS[tagno_str]
        ELSE tagno_str \o "?"

\* a mutant of the sub-IFD tags that forgets the Interoperability IFD
SubIfdTags_noInterop == {34665, 34853}

\* the tags that are offsets to Exif-specific IFDs
SubIfdTags == {34665, 34853, 40965}

\* exif_tag_no in (34665, 34853, 40965)
IsSubIfdTag(tagno) == tagno.t = "int" /\ tagno.v[1] = 0 /\ tagno.v[2] \in SubIfdTags

\* the datatype code exifdata_tostring compares with 1 .. 10: a value that
\* is no int equals none of them
DataTypeCode(x) == IF x.t = "int" /\ x.v[1] = 0 THEN x.v[2] ELSE -1

\* meta_dict[key] = value
Put(meta, key, value) ==
    [k \in DOMAIN meta \cup {key} |-> IF k = key THEN value ELSE meta[k]]

\* one pass of the for loop of read_ifd, st being the position, dictionary,
\* queue and output so far and the exception raised, if any; reads that
\* follow one another end where one read of all their bytes ends
IfdEntry(f, order, st) ==
    LET p0       == st.pos
        tagno    == decode_bytes(order, Read(f, p0, 2))
        p1       == AfterRead(f, p0, 2)
        dtype    == decode_bytes(order, Read(f, p1, 2))
        p2       == AfterRead(f, p0, 2 + 2)
        nvals    == decode_bytes(order, Read(f, p2, 4))
        p3       == AfterRead(f, p0, 2 + 2 + 4)
        tagdata  == Read(f, p3, 4)
        p4       == AfterRead(f, p0, 2 + 2 + 4 + 4)
        msgs     == st.out \o tagno.out \o dtype.out \o nvals.out
    IN  IF IsSubIfdTag(tagno.val)
        THEN LET d == decode_bytes(order, tagdata)
             IN  [st EXCEPT !.pos = p4, !.out = msgs \o d.out,
                            !.queue = Append(@, d.val)]
        ELSE LET r == exifdata_tostring(tagdata, DataTypeCode(dtype.val), order)
             IN  IF r.kind = "raise"
                 THEN [st EXCEPT !.pos = p4, !.out = msgs \o r.out,
                                 !.raised = r.val.v]
                 ELSE [st EXCEPT !.pos = p4, !.out = msgs \o r.out,
                                 !.meta = Put(@, "Exif|" \o exiftag(tagno.val),
                                              <<r.val, str(tagno.val), dtype.val,
                                                nvals.val>>)]

-----------------------------------------------------------------------------
(* exiferino.read_app1_exif                                                 *)

\* an offset far past the end of every file: where a seek to an offset of
\* 2^30 or more lands, as far as the reads that follow can tell
FarOffset == 16384 * 65536

\* the position after imagefile.seek(base + offset)
SeekTo(base, offset) ==
    IF offset.v[1] >= 16384 THEN FarOffset
    ELSE base + offset.v[1] * 65536 + offset.v[2]

\* a mutant of the test that looks at the high half of the offset only
Positive_high(x) == x.v[1] > 0 /\ x.v[2] >= 0

\* offset_ifd > 0, for an int
Positive(x) == x.v[1] > 0 \/ x.v[2] > 0

\* a mutant of the dequeue that takes the newest offset, as deque.pop() does
PopLeft_newest(q) == [item |-> q[Len(q)], rest |-> SubSeq(q, 1, Len(q) - 1)]

\* subifd_queue.popleft()
PopLeft(q) == [item |-> Head(q), rest |-> Tail(q)]

\* the messages of verify_marker(imagefile, 'APP1')
VerifyMarkerOut(marker) ==
    IF marker # <<255, 225>>
    THEN <<"ERROR: APP1 expected but not found." \o BytesRepr(marker)>>
    ELSE <<>>

\* subifd_queue = deque(); seek(seg_offset); verify_marker; skip the size;
\* verify_exifheader; verify_tiffheader
ExifHeader ==
    /\ pc = "exif"
    /\ LET marker  == Read(file, seg_offset, 2)
           p1      == AfterRead(file, seg_offset, 2)
           p2      == AfterRead(file, seg_offset, 2 + 2)
           header  == Read(file, p2, 6)
           p3      == AfterRead(file, seg_offset, 2 + 2 + 6)
           align   == Read(file, p3, 2)
           p4      == AfterRead(file, seg_offset, 2 + 2 + 6 + 2)
           order   == ByteOrder(align)
           sample  == decode_bytes(order, Read(file, p4, 2))
           p5      == AfterRead(file, seg_offset, 2 + 2 + 6 + 2 + 2)
           ifd0    == decode_bytes(order, Read(file, p5, 4))
           p6      == AfterRead(file, seg_offset, 2 + 2 + 6 + 2 + 2 + 4)
       IN  IF header # ExifId
           THEN /\ pc' = "exited"
                /\ pos' = p3
                /\ diag' = diag \o VerifyMarkerOut(marker)
                                \o <<"INVALID Exif header:">>
                /\ UNCHANGED <<tiff_header, byte_order, offset_ifd>>
           ELSE IF sample.val # PyInt(0, 42)
           THEN /\ pc' = "exited"
                /\ pos' = p5
                /\ diag' = diag \o VerifyMarkerOut(marker) \o ByteOrderWarning(align)
                                \o sample.out \o <<"Sample encoded value: INCORRECT">>
                /\ UNCHANGED <<tiff_header, byte_order, offset_ifd>>
           ELSE /\ pc' = "main"
                /\ pos' = p6
                /\ diag' = diag \o VerifyMarkerOut(marker) \o ByteOrderWarning(align)
                                \o ifd0.out
                /\ tiff_header' = p3
                /\ byte_order' = align
                /\ offset_ifd' = ifd0.val
    /\ subifd_queue' = <<>>
    /\ UNCHANGED <<file, retval, seg_offset, meta_dict, directory_entries, ifd_loop,
                   walklog, scanvars, decvars, metavars, listvars, xmpvars>>

\* seek(tiff_header + offset_ifd) and the start of read_ifd: the decoder is
\* made and the number of directory entries read; range() of None raises
WalkIfd(loop) ==
    LET start == SeekTo(tiff_header, offset_ifd)
        count == decode_bytes(ByteOrder(byte_order), Read(file, start, 2))
    IN  /\ walklog' = Append(walklog, <<loop, start - tiff_header>>)
        /\ pos' = AfterRead(file, start, 2)
        /\ diag' = diag \o ByteOrderWarning(byte_order) \o count.out
        /\ ifd_loop' = loop
        /\ IF count.val.t = "int"
           THEN /\ directory_entries' = count.val.v[2]
                /\ pc' = "ifd"
                /\ UNCHANGED retval
           ELSE /\ pc' = "raised"
                /\ retval' = PyStr("TypeError")
                /\ UNCHANGED directory_entries
        /\ UNCHANGED <<file, seg_offset, tiff_header, byte_order, offset_ifd,
                       subifd_queue, meta_dict, scanvars, decvars, metavars, listvars, xmpvars>>

\* one pass of the for loop of read_ifd
ReadIfdEntry ==
    /\ pc = "ifd"
    /\ directory_entries > 0
    /\ LET st == IfdEntry(file, ByteOrder(byte_order),
                          [pos |-> pos, meta |-> meta_dict, queue |-> subifd_queue,
                           out |-> <<>>, raised |-> ""])
       IN  /\ pos' = st.pos
           /\ meta_dict' = st.meta
           /\ subifd_queue' = st.queue
           /\ diag' = diag \o st.out
           /\ pc' = IF st.raised # "" THEN "raised" ELSE pc
           /\ retval' = IF st.raised # "" THEN PyStr(st.raised) ELSE retval
    /\ directory_entries' = directory_entries - 1
    /\ UNCHANGED <<file, seg_offset, tiff_header, byte_order, offset_ifd, ifd_loop,
                   walklog, scanvars, decvars, metavars, listvars, xmpvars>>

\* the for loop is over: read_ifd returns the offset to the next IFD and
\* the calling loop tests it
ReadIfdNext ==
    /\ pc = "ifd"
    /\ directory_entries = 0
    /\ LET next == decode_bytes(ByteOrder(byte_order), Read(file, pos, 4))
       IN  /\ offset_ifd' = next.val
           /\ diag' = diag \o next.out
    /\ pos' = AfterRead(file, pos, 4)
    /\ pc' = ifd_loop
    /\ UNCHANGED <<file, retval, seg_offset, tiff_header, byte_order, subifd_queue,
                   meta_dict, directory_entries, ifd_loop, walklog, scanvars,
                   decvars, metavars, listvars, xmpvars>>

\* the test of a while loop on offset_ifd raises when offset_ifd is None
WhileRaises ==
    /\ offset_ifd.t # "int"
    /\ pc' = "raised"
    /\ retval' = PyStr("TypeError")
    /\ UNCHANGED <<file, pos, diag, exifvars, scanvars, decvars, metavars, listvars, xmpvars>>

\* the first loop, while offset_ifd > 0: one IFD of the main chain
MainIfd ==
    /\ pc = "main"
    /\ \/ offset_ifd.t = "int" /\ Positive(offset_ifd) /\ WalkIfd("main")
       \/ WhileRaises

\* the first loop ends
MainDone ==
    /\ pc = "main"
    /\ offset_ifd.t = "int" /\ ~Positive(offset_ifd)
    /\ pc' = "drain"
    /\ UNCHANGED <<file, pos, retval, diag, exifvars, scanvars, decvars,
                   metavars, listvars, xmpvars>>

\* while len(subifd_queue) > 0: offset_ifd = subifd_queue.popleft()
Dequeue ==
    /\ pc = "drain"
    /\ Len(subifd_queue) > 0
    /\ offset_ifd' = PopLeft(subifd_queue).item
    /\ subifd_queue' = PopLeft(subifd_queue).rest
    /\ walklog' = Append(walklog, <<"pop", offset_ifd'>>)
    /\ pc' = "sub"
    /\ UNCHANGED <<file, pos, retval, diag, seg_offset, tiff_header, byte_order,
                   meta_dict, directory_entries, ifd_loop, scanvars, decvars,
                   metavars, listvars, xmpvars>>

\* the inner loop, while offset_ifd > 0: one IFD of the dequeued chain
SubIfd ==
    /\ pc = "sub"
    /\ \/ offset_ifd.t = "int" /\ Positive(offset_ifd) /\ WalkIfd("sub")
       \/ WhileRaises

\* the inner loop ends
SubDone ==
    /\ pc = "sub"
    /\ offset_ifd.t = "int" /\ ~Positive(offset_ifd)
    /\ pc' = "drain"
    /\ UNCHANGED <<file, pos, retval, diag, exifvars, scanvars, decvars,
                   metavars, listvars, xmpvars>>

\* the queue is empty: read_app1_exif returns
ExifReturn ==
    /\ pc = "drain"
    /\ Len(subifd_queue) = 0
    /\ pc' = "returned"
    /\ retval' = PyNone
    /\ UNCHANGED <<file, pos, diag, exifvars, scanvars, decvars, metavars, listvars, xmpvars>>

NextExif ==
    \/ ExifHeader \/ MainIfd \/ MainDone \/ Dequeue \/ SubIfd \/ SubDone
    \/ ReadIfdEntry \/ ReadIfdNext \/ ExifReturn

-----------------------------------------------------------------------------
(* The files the Exif reader is run on: SOI, then one APP1 segment with the *)
(* Exif identifier, a TIFF header of either byte order and the directories  *)
(* of Dirs laid out one after the other, directory 1 being IFD0. IFD0 has   *)
(* up to MaxEntries entries, a later directory at most one, and each a      *)
(* next-directory offset that is 0 or leads to a later directory; an entry  *)
(* is a SHORT or BYTE value or a sub-IFD pointer to a later directory. The  *)
(* file is whole or lacks its last byte.                                    *)

MaxEntries == 2

Dirs == {1, 2, 3}

IsLastDir(d) == \A e \in Dirs : e <= d

LaterDirs(d) == { e \in Dirs : e > d }

\* the pointer tag used for a pointer from directory d to directory t
PointerTag(d, t) ==
    CASE (t - d) % 3 = 1 /\ d % 2 = 1 -> 34665
      [] (t - d) % 3 = 2 -> 34853
      [] OTHER -> 40965

EntryOptions(d) ==
    { [kind |-> "short", target |-> 0] }
    \cup { [kind |-> "pointer", target |-> t] : t \in LaterDirs(d) }
    \cup (IF IsLastDir(d) THEN { [kind |-> "byte", target |-> 0] } ELSE {})

RECURSIVE EntrySeqs(_, _)
EntrySeqs(d, n) ==
    IF n = 0 THEN { <<>> }
    ELSE LET shorter == EntrySeqs(d, n - 1)
         IN  shorter \cup { Append(s, e) : s \in { t \in shorter : Len(t) = n - 1 },
                                           e \in EntryOptions(d) }

\* IFD0 has up to MaxEntries entries, a later directory at most one
DirPlans(d) ==
    { [entries |-> es, next |-> n] :
        es \in EntrySeqs(d, IF d = 1 THEN MaxEntries ELSE 1),
        n \in {0} \cup LaterDirs(d) }

\* a plan gives every directory, from d on, its entries and its successor
RECURSIVE PlansFrom(_)
PlansFrom(d) ==
    IF d \notin Dirs THEN { <<>> }
    ELSE { <<p>> \o rest : p \in DirPlans(d), rest \in PlansFrom(d + 1) }

\* the plans of all directories: Plans' elements give directory d at index d
Plans == PlansFrom(1)

\* the bytes of a 16-bit and of a 32-bit value under a byte alignment
Enc16(align, n) ==
    IF align = II THEN <<n % 256, n \div 256>> ELSE <<n \div 256, n % 256>>

Enc32(align, n) ==
    IF align = II THEN Enc16(II, n % 65536) \o Enc16(II, n \div 65536)
    ELSE Enc16(MM, n \div 65536) \o Enc16(MM, n % 65536)

DirSize(plan) == 2 + 12 * Len(plan.entries) + 4

\* the offset of directory d from the TIFF header, whose 8 bytes come first
RECURSIVE DirOffset(_, _)
DirOffset(pl, d) == IF d = 1 THEN 8 ELSE DirOffset(pl, d - 1) + DirSize(pl[d - 1])

EntryBytes(align, pl, d, e) ==
    CASE e.kind = "short" ->
            Enc16(align, 255 + d) \o Enc16(align, 3) \o Enc32(align, 1)
            \o Enc16(align, 300 + d) \o <<0, 0>>
      [] e.kind = "byte" ->
            Enc16(align, 262) \o Enc16(align, 1) \o Enc32(align, 1) \o <<7, 0, 0, 0>>
      [] e.kind = "pointer" ->
            Enc16(align, PointerTag(d, e.target)) \o Enc16(align, 4)
            \o Enc32(align, 1) \o Enc32(align, DirOffset(pl, e.target))

RECURSIVE EntriesBytes(_, _, _, _)
EntriesBytes(align, pl, d, es) ==
    IF es = <<>> THEN <<>>
    ELSE EntryBytes(align, pl, d, es[1]) \o EntriesBytes(align, pl, d, Tail(es))

DirBytes(align, pl, d) ==
    Enc16(align, Len(pl[d].entries))
    \o EntriesBytes(align, pl, d, pl[d].entries)
    \o Enc32(align, IF pl[d].next = 0 THEN 0 ELSE DirOffset(pl, pl[d].next))

RECURSIVE DirsBytes(_, _, _)
DirsBytes(align, pl, d) ==
    IF d \notin Dirs THEN <<>>
    ELSE DirBytes(align, pl, d) \o DirsBytes(align, pl, d + 1)

ExifFile(align, pl) ==
    LET tiff == align \o Enc16(align, 42) \o Enc32(align, 8) \o DirsBytes(align, pl, 1)
    IN  <<255, 216>> \o Seg(225, ExifId \o tiff)

\* the number of bytes a file may lack at its end
Trims == {0, 1}

InitExif ==
    /\ \E align \in {II, MM}, pl \in Plans, trim \in Trims :
          LET whole == ExifFile(align, pl)
          IN  file = Prefix(whole, Len(whole) - trim)
    /\ pos = 0
    /\ pc = "exif"
    /\ retval = "none"
    /\ diag = <<>>
    /\ seg_offset = 2
    /\ tiff_header = 0
    /\ byte_order = <<>>
    /\ offset_ifd = PyNone
    /\ subifd_queue = <<>>
    /\ meta_dict = <<>>
    /\ directory_entries = 0
    /\ ifd_loop = ""
    /\ walklog = <<>>
    /\ ScanIdle
    /\ DecIdle
    /\ XmpIdle
    /\ MetaIdle
    /\ ListIdle

SpecExif == InitExif /\ [][NextExif]_vars

-----------------------------------------------------------------------------
(* Claims about the IFD walker. The directories are read off the bytes of   *)
(* the file, with the byte alignment of its TIFF header.                    *)

\* the tags of the pointers to Exif-specific IFDs
PointerTags == {34665, 34853, 40965}

\* the number of entries of the directory at offset o from the TIFF header
DirCountAt(o) == U16(byte_order, Read(file, tiff_header + o, 2))

\* the directory at offset o lies whole within the file
DirWhole(o) ==
    /\ tiff_header + o + 2 <= Len(file)
    /\ tiff_header + o + 2 + 12 * DirCountAt(o) + 4 <= Len(file)

\* the 12 bytes of entry i of the directory at o, its tag and its value field
EntryAt(o, i) == Read(file, tiff_header + o + 2 + 12 * (i - 1), 12)

EntryTag(e) == U16(byte_order, SubSeq(e, 1, 2))

EntryValue(e) == U32(byte_order, SubSeq(e, 9, 12))

\* the next-directory offset of the directory at o
DirNextAt(o) ==
    LET v == U32(byte_order, Read(file, tiff_header + o + 2 + 12 * DirCountAt(o), 4))
    IN  v[1] * 65536 + v[2]

\* the entry the next pass of the for loop reads, when it lies whole in the file
EntryAhead == Read(file, pos, 12)

\* C8: a directory entry whose tag is 34665, 34853 or 40965 appends exactly
\* one element to the sub-IFD queue, the unsigned 32-bit value of its 4-byte
\* value field under the active byte order, and writes no metadata record;
\* an entry with any other tag leaves the queue as it is; and a
\* next-directory offset of 0 ends the walk of the main chain.
C8_PointerEntries ==
    [][ /\ (pc = "ifd" /\ directory_entries > 0 /\ Len(EntryAhead) = 12) =>
              IF EntryTag(EntryAhead) \in PointerTags
              THEN /\ subifd_queue' =
                         Append(subifd_queue, PyInt(EntryValue(EntryAhead)[1],
                                                    EntryValue(EntryAhead)[2]))
                   /\ meta_dict' = meta_dict
              ELSE subifd_queue' = subifd_queue
        /\ (pc = "ifd" /\ directory_entries = 0 /\ ifd_loop = "main"
              /\ Read(file, pos, 4) = <<0, 0, 0, 0>>) =>
              /\ pc' = "main"
              /\ offset_ifd' = PyInt(0, 0)
        /\ (pc = "main" /\ offset_ifd = PyInt(0, 0)) =>
              /\ pc' = "drain"
              /\ pos' = pos
              /\ walklog' = walklog
              /\ subifd_queue' = subifd_queue
              /\ meta_dict' = meta_dict
      ]_vars

\* the main chain has ended, leaving two queued pointers, one of them the
\* Interoperability pointer, and a metadata record of another entry
C8_Witness ==
    /\ pc = "drain"
    /\ Len(subifd_queue) = 2
    /\ Len(walklog) = 2
    /\ walklog[2][1] = "main"
    /\ EntryTag(EntryAt(walklog[2][2], 1)) = 40965
    /\ DOMAIN meta_dict # {}

\* the offsets of the chain of directories that starts at offset o, as far
\* as the directories lie whole within the file, over at most n directories
RECURSIVE ChainFrom(_, _)
ChainFrom(o, n) ==
    IF o = 0 \/ n = 0 THEN <<>>
    ELSE IF ~DirWhole(o) THEN <<o>>
    ELSE <<o>> \o ChainFrom(DirNextAt(o), n - 1)

\* the chain from o, and whether it ends with a next-directory offset of 0
Chain(o) == ChainFrom(o, Len(file))

ChainEnds(o) ==
    \A i \in 1..Len(Chain(o)) :
        /\ DirWhole(Chain(o)[i])
        /\ i = Len(Chain(o)) => DirNextAt(Chain(o)[i]) = 0

\* the offset of IFD0 in the TIFF header
Ifd0 ==
    LET v == U32(byte_order, Read(file, tiff_header + 4, 4))
    IN  v[1] * 65536 + v[2]

\* the pointers of entries i, i + 1, ... of the directory at o, in order
RECURSIVE PointersFrom(_, _)
PointersFrom(o, i) ==
    IF i > DirCountAt(o) THEN <<>>
    ELSE LET e == EntryAt(o, i)
         IN  (IF EntryTag(e) \in PointerTags
              THEN <<PyInt(EntryValue(e)[1], EntryValue(e)[2])>>
              ELSE <<>>) \o PointersFrom(o, i + 1)

\* the events of a log that are reads of a directory, and those that are not
RECURSIVE Offsets(_)
Offsets(log) ==
    IF log = <<>> THEN <<>> ELSE <<Head(log)[2]>> \o Offsets(Tail(log))

IsWalk(ev) == ev[1] \in {"main", "sub"}

IsPop(ev) == ev[1] = "pop"

\* the pointers of all the directories a log reads, in the order read
RECURSIVE Appended(_)
Appended(log) ==
    IF log = <<>> THEN <<>>
    ELSE (IF IsWalk(Head(log)) THEN PointersFrom(Head(log)[2], 1) ELSE <<>>)
         \o Appended(Tail(log))

\* the events of the log after event i and before the next dequeue
RECURSIVE RunAfter(_, _)
RunAfter(log, i) ==
    IF i >= Len(log) \/ IsPop(log[i + 1]) THEN <<>>
    ELSE <<log[i + 1]>> \o RunAfter(log, i + 1)

\* the dequeue logged as event i is over: another follows it, or the loop
\* stands at its head again
PopIsOver(i) ==
    \/ \E j \in (i + 1)..Len(walklog) : IsPop(walklog[j])
    \/ pc \in {"drain", "returned"}

\* every read_ifd call so far has returned
BetweenReads == pc \in {"main", "sub", "drain", "returned"}

MainEvents == SelectSeq(walklog, LAMBDA ev : ev[1] = "main")

\* C9: no queued offset is read before the main chain from IFD0 has reached
\* a next-directory offset of 0; then offsets are dequeued in the order they
\* were appended, the chain of each is followed to a next-directory offset
\* of 0 before the next dequeue, offsets appended while draining are
\* processed too, and the queue is empty when the handler returns.
C9_MainChainThenFifoDrain ==
    tiff_header > 0 =>
        \* the main chain comes first, from IFD0, and to its end
        /\ \A i \in 1..Len(walklog) :
              walklog[i][1] = "main" => \A j \in 1..i : walklog[j][1] = "main"
        /\ Offsets(MainEvents) = Prefix(Chain(Ifd0), Len(MainEvents))
        /\ (pc \in {"drain", "sub", "returned"}
              \/ \E i \in 1..Len(walklog) : walklog[i][1] # "main") =>
              /\ Offsets(MainEvents) = Chain(Ifd0)
              /\ ChainEnds(Ifd0)
        \* first in, first out: what was dequeued, then what is queued, is
        \* what the directories read so far appended, in that order
        /\ BetweenReads =>
              Offsets(SelectSeq(walklog, IsPop)) \o subifd_queue = Appended(walklog)
        \* a dequeued offset is followed by the reads of its chain, all of
        \* it before the next dequeue
        /\ \A i \in 1..Len(walklog) :
              (IsPop(walklog[i]) /\ walklog[i][2].t = "int") =>
                  LET o   == walklog[i][2].v[1] * 65536 + walklog[i][2].v[2]
                      run == RunAfter(walklog, i)
                  IN  /\ \A k \in 1..Len(run) : run[k][1] = "sub"
                      /\ Offsets(run) = Prefix(Chain(o), Len(run))
                      /\ PopIsOver(i) =>
                            /\ Offsets(run) = Chain(o)
                            /\ ChainEnds(o)
        \* nothing is left in the queue at the return
        /\ pc = "returned" => subifd_queue = <<>>

\* the handler has returned after three dequeues, the last of an offset
\* that was appended while draining
C9_Witness ==
    /\ pc = "returned"
    /\ Len(SelectSeq(walklog, IsPop)) = 3
    /\ Len(MainEvents) = 1
    /\ Len(PointersFrom(MainEvents[1][2], 1)) = 2

-----------------------------------------------------------------------------
(* exiferino.xmpns_tagtype and the loop of exiferino.read_app1_xmp over the *)
(* elements of the parsed packet. An element is a record of the tag and the *)
(* text that ElementTree gives it: the tag is a str, "{uri}name" for a name *)
(* in a namespace, and the text is a str or None.                           *)

RdfNs == "http://www.w3.org/1999/02/22-rdf-syntax-ns#"

TiffNs == "http://ns.adobe.com/tiff/1.0/"

XapNs == "http://ns.adobe.com/xap/1.0/"

ExifNs == "http://ns.adobe.com/exif/1.0/"

XapMmNs == "http://ns.adobe.com/xap/1.0/mm/"

DcNs == "http://purl.org/dc/elements/1.1/"

PhotoshopNs == "http://ns.adobe.com/photoshop/1.0/"

xmpns_tagtype(xmp_namespace) ==
    CASE xmp_namespace = RdfNs       -> "XMP-RDF"
      [] xmp_namespace = TiffNs      -> "XMP-tiff"
      [] xmp_namespace = XapNs       -> "XMP-xap"
      [] xmp_namespace = ExifNs      -> "XMP-exif"
      [] xmp_namespace = XapMmNs     -> "XMP-xap"
      [] xmp_namespace = DcNs        -> "XMP-dcore"
      [] xmp_namespace = PhotoshopNs -> "Photoshop"
      [] OTHER                       -> xmp_namespace

\* s[i - 1], the i-th character of a str
CharAt(s, i) == SubSeq(s, i, i)

\* the whitespace of the texts modelled, all of which str.strip() removes
Whitespace == {" ", "\t", "\n", "\r"}

RECURSIVE lstrip(_)
lstrip(s) ==
    IF Len(s) > 0 /\ CharAt(s, 1) \in Whitespace
    THEN lstrip(SubSeq(s, 2, Len(s))) ELSE s

RECURSIVE rstrip(_)
rstrip(s) ==
    IF Len(s) > 0 /\ CharAt(s, Len(s)) \in Whitespace
    THEN rstrip(SubSeq(s, 1, Len(s) - 1)) ELSE s

\* s.strip()
strip(s) == rstrip(lstrip(s))

\* where '{(?P<ns>.+)}(?P<tag>.+)' can close the ns group when it opens at
\* i: at a closing brace with a character before it and one after it
ClosingAt(s, i) == { j \in (i + 2)..(Len(s) - 1) : CharAt(s, j) = "}" }

\* where the search can start a match: at an opening brace that can close
OpeningAt(s) == { i \in 1..Len(s) : CharAt(s, i) = "{" /\ ClosingAt(s, i) # {} }

\* re.search(r'{(?P<ns>.+)}(?P<tag>.+)', s): the leftmost match, its ns
\* group as long as it can be; the names modelled hold no line break
TagSearch(s) ==
    IF OpeningAt(s) = {} THEN [found |-> FALSE, ns |-> "", tag |-> ""]
    ELSE LET i == CHOOSE a \in OpeningAt(s) : \A b \in OpeningAt(s) : a <= b
             j == CHOOSE a \in ClosingAt(s, i) : \A b \in ClosingAt(s, i) : a >= b
         IN  [found |-> TRUE, ns |-> SubSeq(s, i + 1, j - 1),
              tag |-> SubSeq(s, j + 1, Len(s))]

\* one pass of the for loop over the elements: an element whose str(text)
\* strips to nothing is skipped, one whose tag the search matches is saved
XmpChild ==
    /\ pc = "xmp"
    /\ xmp_done < Len(xmp_children)
    /\ LET child     == xmp_children[xmp_done + 1]
           tag_value == child.text
           match_obj == TagSearch(child.tag)
       IN  IF strip(str(tag_value)) = "" THEN UNCHANGED meta_dict
           ELSE IF match_obj.found
           THEN meta_dict' =
                    Put(meta_dict, xmpns_tagtype(match_obj.ns) \o "|" \o match_obj.tag,
                        <<tag_value, "", "", 1>>)
           ELSE UNCHANGED meta_dict
    /\ xmp_done' = xmp_done + 1
    /\ UNCHANGED <<file, pos, pc, retval, diag, xmp_children, seg_offset,
                   tiff_header, byte_order, offset_ifd, subifd_queue,
                   directory_entries, ifd_loop, walklog, scanvars, decvars, metavars, listvars>>

\* the elements are used up: read_app1_xmp returns
XmpReturn ==
    /\ pc = "xmp"
    /\ xmp_done = Len(xmp_children)
    /\ pc' = "returned"
    /\ retval' = PyNone
    /\ UNCHANGED <<file, pos, diag, exifvars, scanvars, decvars, metavars, listvars, xmpvars>>

NextXmp == XmpChild \/ XmpReturn

-----------------------------------------------------------------------------
(* The packets the XMP loop is run on, as the elements the parser yields:   *)
(* up to MaxChildren elements, each with a name in a namespace of the       *)
(* table, in another namespace or in none, and with no text, with           *)
(* whitespace only or with text.                                            *)

MaxChildren == 2

\* the namespace of an element, "" for a name in no namespace
Namespaces == {DcNs, XapNs, XapMmNs, RdfNs, "urn:example:ns", ""}

LocalNames == {"creator", "Rating"}

Texts == {PyNone, PyStr(" \n"), PyStr("Jane"), PyStr(" 5 ")}

\* the tag ElementTree gives a name in a namespace
QName(ns, name) == IF ns = "" THEN name ELSE "{" \o ns \o "}" \o name

Children ==
    { [ns |-> ns, name |-> name, tag |-> QName(ns, name), text |-> text] :
        ns \in Namespaces, name \in LocalNames, text \in Texts }

RECURSIVE ChildSeqs(_)
ChildSeqs(n) ==
    IF n = 0 THEN { <<>> }
    ELSE LET shorter == ChildSeqs(n - 1)
         IN  shorter \cup { Append(s, c) : s \in { t \in shorter : Len(t) = n - 1 },
                                           c \in Children }

InitXmp ==
    /\ xmp_children \in ChildSeqs(MaxChildren)
    /\ xmp_done = 0
    /\ meta_dict = <<>>
    /\ pc = "xmp"
    /\ retval = "none"
    /\ diag = <<>>
    /\ file = <<>>
    /\ pos = 0
    /\ seg_offset = 0 /\ tiff_header = 0 /\ byte_order = <<>>
    /\ offset_ifd = <<>> /\ subifd_queue = <<>>
    /\ directory_entries = 0 /\ ifd_loop = "" /\ walklog = <<>>
    /\ ScanIdle
    /\ DecIdle
    /\ MetaIdle
    /\ ListIdle

SpecXmp == InitXmp /\ [][NextXmp]_vars

-----------------------------------------------------------------------------
(* Claims about the XMP loop                                                *)

\* the category of a namespace: the short label of the fixed table, or the
\* namespace itself when the table does not have it
Category(ns) ==
    LET table == { <<RdfNs, "XMP-RDF">>, <<TiffNs, "XMP-tiff">>, <<XapNs, "XMP-xap">>,
                   <<XapMmNs, "XMP-xap">>, <<ExifNs, "XMP-exif">>,
                   <<DcNs, "XMP-dcore">>, <<PhotoshopNs, "Photoshop">> }
    IN  IF \E row \in table : row[1] = ns
        THEN (CHOOSE row \in table : row[1] = ns)[2]
        ELSE ns

\* the element has no text, or text that is whitespace all through
HasNoText(child) ==
    \/ child.text.t = "none"
    \/ \A i \in 1..Len(child.text.v) : CharAt(child.text.v, i) \in Whitespace

\* the element the next pass of the loop is about
ChildAhead == xmp_children[xmp_done + 1]

\* C10: an element with no text, or with text that is empty once trimmed,
\* gets no record; any other element whose tag is {namespace}localName gets
\* exactly one record, under category(namespace)|localName and with the
\* element's text as its value.
C10_XmpRecords ==
    [][ (pc = "xmp" /\ xmp_done < Len(xmp_children)) =>
          IF HasNoText(ChildAhead) THEN meta_dict' = meta_dict
          ELSE ChildAhead.ns # "" =>
                  LET key == Category(ChildAhead.ns) \o "|" \o ChildAhead.name
                  IN  /\ DOMAIN meta_dict' = DOMAIN meta_dict \cup {key}
                      /\ meta_dict'[key][1] = ChildAhead.text
                      /\ \A k \in DOMAIN meta_dict \ {key} :
                            meta_dict'[k] = meta_dict[k]
      ]_vars

-----------------------------------------------------------------------------
(* Further claims about segment_map                                         *)

\* C13: segment_map decides that a segment has no payload exactly as
\* seginfo does: after a marker it reads and skips a length field if and
\* only if seginfo gives the marker has_data, so that after an unknown
\* marker at offset o the next marker is read at o + 2.
C13_NoPayloadAsClassifier ==
    [][ pc = "skip" =>
          /\ Len(readlog') > Len(readlog) <=> seginfo(seg_mark).has_data
          /\ (~seginfo(seg_mark).has_data /\ pc' = "loop") => pos' = pos
      ]_vars

\* the big-endian value of the two bytes of file f at offset p
LengthAt(f, p) == f[p + 1] * 256 + f[p + 2]

\* C14: every recorded offset is the absolute offset of the first byte of
\* the segment's marker, and after a payload-carrying segment recorded at
\* offset o with length field L the next marker is read at o + 2 + L, for
\* an APP1 segment as for any other: the identifier probe leaves the
\* position just after the marker.
C14_OffsetsAndLengthSkip ==
    /\ \A i \in 1..Len(segments) :
          /\ i <= Len(marklog)
          /\ segments[i][2] = marklog[i][2]
          /\ HasAt(file, segments[i][2], marklog[i][1])
    /\ \A i \in 1..(Len(marklog) - 1) :
          seginfo(marklog[i][1]).has_data =>
              marklog[i + 1][2] = marklog[i][2] + 2 + LengthAt(file, marklog[i][2] + 2)
    /\ pc = "check" => pos = Last(marklog)[2] + 2
    /\ (pc = "loop" /\ marklog # <<>> /\ seginfo(Last(marklog)[1]).has_data) =>
          pos = Last(marklog)[2] + 2 + LengthAt(file, Last(marklog)[2] + 2)

\* the marker that follows an APP1 Exif segment has been read
C14_Witness ==
    /\ Len(marklog) >= 2
    /\ Len(segments) >= 2
    /\ segments[1][1] = "APP1-Exif"
    /\ marklog[2][2] = 2 + 2 + LengthAt(file, 4)
    /\ LengthAt(file, 4) > 2

\* the scanner under a scheduler that lets it take every step it can take;
\* every step of Next changes pc
SpecLive == Spec /\ WF_pc(Next)

\* every marker is read at least 2 bytes after the one before it, and the
\* recorded offsets increase strictly
MarkersAdvance ==
    /\ \A i \in 1..(Len(marklog) - 1) : marklog[i + 1][2] >= marklog[i][2] + 2
    /\ \A i \in 1..(Len(segments) - 1) : segments[i + 1][2] > segments[i][2]

\* C18: on every file, whatever its length fields hold (0 and 1 included,
\* for which the skip seeks backwards), each pass of the loop reads its
\* marker at least 2 bytes after the previous one, so the recorded offsets
\* increase strictly, no segment is recorded twice, and the scan ends.
C18_ScanAdvancesAndEnds == []MarkersAdvance /\ <>(pc = "returned")

\* the scan has returned after it passed a segment whose length field is 1
C18_Witness ==
    /\ pc = "returned"
    /\ \E i \in 1..(Len(marklog) - 1) :
          /\ marklog[i][1] = <<255, 254>>
          /\ LengthAt(file, marklog[i][2] + 2) = 1
          /\ marklog[i + 1][2] = marklog[i][2] + 3

-----------------------------------------------------------------------------
(* Further claims about the IFD walker                                      *)

\* C15: for every directory entry whose tag is no sub-IFD pointer, whatever
\* its declared data type, read_ifd writes the record of the entry (display
\* string, decimal tag number, data type, count) and goes on to the next
\* entry: no data type makes the walk abort.
C15_EveryDataTypeRecorded ==
    [][ (pc = "ifd" /\ directory_entries > 0 /\ Len(EntryAhead) = 12
           /\ EntryTag(EntryAhead) \notin PointerTags) =>
          /\ pc' = "ifd"
          /\ directory_entries' = directory_entries - 1
          /\ \E k \in DOMAIN meta_dict' :
                /\ meta_dict'[k][1].t = "str"
                /\ meta_dict'[k][2] = DecStr(0, EntryTag(EntryAhead))
                /\ meta_dict'[k][3] = PyInt(0, U16(byte_order, SubSeq(EntryAhead, 3, 4)))
                /\ meta_dict'[k][4] = PyInt(U32(byte_order, SubSeq(EntryAhead, 5, 8))[1],
                                            U32(byte_order, SubSeq(EntryAhead, 5, 8))[2])
      ]_vars

-----------------------------------------------------------------------------
(* The Exif reader on files whose directories may lead back: each of the    *)
(* directories of Dirs has a next-directory offset that is 0 or leads to    *)
(* any directory, itself included, and each but the last has no entry or    *)
(* one sub-IFD pointer to any directory. The history of the walk grows      *)
(* without bound on such files, so the reader is followed for MaxWalk reads *)
(* and dequeues; a walk of such a file without a cycle takes 10 at most.    *)

MaxWalk == 11

LoopDirPlans(d) ==
    { [entries |-> es, next |-> n] :
        es \in { <<>> } \cup (IF IsLastDir(d) THEN {}
                              ELSE { <<[kind |-> "pointer", target |-> t]>> : t \in Dirs }),
        n \in {0} \cup Dirs }

RECURSIVE LoopPlansFrom(_)
LoopPlansFrom(d) ==
    IF d \notin Dirs THEN { <<>> }
    ELSE { <<p>> \o rest : p \in LoopDirPlans(d), rest \in LoopPlansFrom(d + 1) }

LoopPlans == LoopPlansFrom(1)

InitExifLoop ==
    /\ \E align \in {II, MM}, pl \in LoopPlans : file = ExifFile(align, pl)
    /\ pos = 0
    /\ pc = "exif"
    /\ retval = PyNone
    /\ diag = <<>>
    /\ seg_offset = 2
    /\ tiff_header = 0
    /\ byte_order = <<>>
    /\ offset_ifd = PyNone
    /\ subifd_queue = <<>>
    /\ meta_dict = <<>>
    /\ directory_entries = 0
    /\ ifd_loop = ""
    /\ walklog = <<>>
    /\ ScanIdle
    /\ DecIdle
    /\ XmpIdle
    /\ MetaIdle
    /\ ListIdle

\* a step of the reader while its history is short of MaxWalk
NextExifLoop == Len(walklog) < MaxWalk /\ NextExif

\* every step of the reader changes pc or the count of passes left
SpecExifLoop ==
    InitExifLoop /\ [][NextExifLoop]_vars /\ WF_<<pc, directory_entries>>(NextExifLoop)

\* the offsets the directory at o leads to: its next directory and the
\* targets of its pointers
RECURSIVE PointerOffsets(_)
PointerOffsets(ps) ==
    IF ps = <<>> THEN {}
    ELSE {Head(ps).v[1] * 65536 + Head(ps).v[2]} \cup PointerOffsets(Tail(ps))

LeadsTo(o) ==
    IF DirWhole(o) THEN ({DirNextAt(o)} \cup PointerOffsets(PointersFrom(o, 1))) \ {0}
    ELSE {}

\* the offsets reached from those of S in at most n steps
RECURSIVE ReachedFrom(_, _)
ReachedFrom(S, n) ==
    IF n = 0 THEN S
    ELSE ReachedFrom(S \cup UNION { LeadsTo(o) : o \in S }, n - 1)

\* the directories the walk from IFD0 comes to; there are at most as many
\* as the file has directories
Walked == ReachedFrom({Ifd0} \ {0}, Cardinality(Dirs))

\* one of them leads back to itself
HasCycle == \E o \in Walked : o \in ReachedFrom(LeadsTo(o), Cardinality(Dirs))

\* all of them lie whole within the file
AllWhole == \A o \in Walked : DirWhole(o)

\* the header has been read, so that the byte order is known
HeaderRead == pc \notin {"exif", "exited"}

\* C17: read_app1_exif has no guard against offsets that lead back: it
\* returns if and only if the directories reachable from IFD0 through
\* next-directory offsets and sub-IFD pointers hold no cycle; with a cycle
\* the walk never returns and always has a next step to take. The file
\* does not change, so a run is of a file with a cycle if it is so when the
\* header has just been read.
C17_ReturnsIffNoCycle ==
    /\ []((HeaderRead /\ (pc \in {"returned", "raised"} \/ ~ENABLED NextExif)) =>
             ~(AllWhole /\ HasCycle))
    /\ <>(\/ pc = "returned"
          \/ pc = "main" /\ walklog = <<>> /\ (~AllWhole \/ HasCycle))

\* the walk of a directory whose pointer leads to itself has refilled the
\* queue as often as the history allows
C17_Witness ==
    /\ Len(walklog) = MaxWalk
    /\ HasCycle
    /\ AllWhole
    /\ Len(SelectSeq(walklog, IsPop)) >= 4
    /\ \A i, j \in 1..Len(walklog) :
          (walklog[i][1] = "sub" /\ walklog[j][1] = "sub") => walklog[i][2] = walklog[j][2]

-----------------------------------------------------------------------------
(* jpegsegments.segment_list and jpegsegments.segment_read                  *)

\* the longest list the model follows; the code has no such bound
MaxList == 6

PyBytes(bs) == [t |-> "bytes", v |-> bs]

\* segment_read(filehandle) at position p: the dictionary it returns, the
\* position it leaves and the exception it raises, if any. read(n) of a
\* buffered file reads to the end of the file for n = -1 and raises
\* ValueError for n < -1; struct.unpack('>H', b) raises unless b has 2 bytes
segment_read(f, p) ==
    LET segmark  == Read(f, p, 2)
        p1       == AfterRead(f, p, 2)
        info     == seginfo(segmark)
        base     == [offset |-> p, segmark |-> segmark, payload |-> PyNone,
                     next_segment |-> PyNone, segtype |-> info.name,
                     has_data |-> info.has_data, has_meta |-> info.has_meta]
        dsbytes  == Read(f, p1, 2)
        p2       == AfterRead(f, p, 2 + 2)
        datasize == UnpackBE16(dsbytes)
        n        == datasize - 2
        payload  == IF n = -1 THEN Read(f, p2, Len(f)) ELSE Read(f, p2, n)
        p3       == IF info.has_meta THEN p2 + Len(payload) ELSE p2 + n
    IN  IF info.name \in {"SOS", "EOI"}
        THEN [seg |-> base, pos |-> p1, raised |-> ""]
        ELSE IF ~info.has_data
        THEN [seg |-> [base EXCEPT !.next_segment = PyInt(0, p + 2)],
              pos |-> p1, raised |-> ""]
        ELSE IF Len(dsbytes) # 2
        THEN [seg |-> base, pos |-> p2, raised |-> "struct.error"]
        ELSE IF info.has_meta /\ n < -1
        THEN [seg |-> base, pos |-> p2, raised |-> "ValueError"]
        ELSE [seg |-> [base EXCEPT !.payload = IF info.has_meta THEN PyBytes(payload)
                                                ELSE PyNone,
                                   !.next_segment = PyInt(0, p3)],
              pos |-> p3, raised |-> ""]

\* one pass of the while True loop: seg = segment_read(jpegfile);
\* seg_list.append(seg); the seek to next_segment, or the break
SegmentRead ==
    /\ pc = "list"
    /\ Len(seg_list) < MaxList
    /\ LET r == segment_read(file, pos)
       IN  IF r.raised # ""
           THEN /\ pc' = "raised"
                /\ retval' = <<r.raised>>
                /\ pos' = r.pos
                /\ UNCHANGED seg_list
           ELSE /\ seg_list' = Append(seg_list, r.seg)
                /\ retval' = retval
                /\ IF r.seg.next_segment.t = "int" /\ r.seg.next_segment.v # <<0, 0>>
                   THEN pc' = "list" /\ pos' = r.seg.next_segment.v[2]
                   ELSE pc' = "done" /\ pos' = r.pos
    /\ UNCHANGED <<file, diag, scanvars, exifvars, decvars, metavars, xmpvars>>

\* return seg_list
ListReturn ==
    /\ pc = "done"
    /\ pc' = "returned"
    /\ retval' = seg_list
    /\ UNCHANGED <<file, pos, diag, scanvars, exifvars, decvars, metavars,
                   listvars, xmpvars>>

NextList == SegmentRead \/ ListReturn

\* the files of the scanner's family, opened afresh
InitList ==
    /\ \E ps \in PieceSeqs : \E cut \in Cuts(ps) :
         /\ file = SubSeq(Concat(ps), 1, cut)
         /\ layout = LayoutOf(ps)
         /\ shape = ShapeOf(ps, cut)
    /\ pos = 0
    /\ pc = "list"
    /\ retval = <<>>
    /\ diag = <<>>
    /\ seg_list = <<>>
    /\ segments = <<>> /\ seg_mark = <<>> /\ seg_id = ""
    /\ readlog = <<>> /\ marklog = <<>> /\ endcause = "none"
    /\ ExifIdle
    /\ DecIdle
    /\ XmpIdle
    /\ MetaIdle

\* the loop runs on as long as it can; every pass of it moves the position
SpecList == InitList /\ [][NextList]_vars /\ WF_<<pc, pos>>(NextList)

\* C19: segment_list returns for every finite file: a pass of its loop that
\* starts at or past the end of the file ends the loop, every run comes to
\* the return, and the returned list has one dictionary per segment of
\* the file.
C19_ListReturnsAtEndOfFile ==
    /\ [][(pc = "list" /\ pos >= Len(file)) => pc' = "done"]_vars
    /\ [](pc = "returned" =>
            \A i \in 1..Len(retval) : Len(retval[i].segmark) = 2)
    /\ <>(pc = "returned")

-----------------------------------------------------------------------------
(* exiferino.readmeta and the segment readers it calls                      *)

\* the message of verify_marker(filehandle, name) on the marker it read,
\* for the marker types that do not end the program
VerifyMarkerMsg(name, want, marker) ==
    IF marker # want
    THEN <<"ERROR: " \o name \o " expected but not found." \o BytesRepr(marker)>>
    ELSE <<>>

\* b'JFIF\x00' and b'JFXX\x00'
JfifHeaders == { <<74, 70, 73, 70, 0>>, <<74, 70, 88, 88, 0>> }

\* read_app0_jfif: struct.unpack('B', b) raises unless b has one byte, and
\* the records written before that stay in the dictionary
JfifSegment ==
    /\ pc = "jfif"
    /\ LET marker == Read(file, seg_offset, 2)
           p2     == AfterRead(file, seg_offset, 2 + 2)
           header == Read(file, p2, 5)
           p3     == AfterRead(file, seg_offset, 2 + 2 + 5)
           p4     == AfterRead(file, seg_offset, 2 + 2 + 5 + 7)
           xthumb == Read(file, p4, 1)
           p5     == AfterRead(file, seg_offset, 2 + 2 + 5 + 7 + 1)
           ythumb == Read(file, p5, 1)
           p6     == AfterRead(file, seg_offset, 2 + 2 + 5 + 7 + 1 + 1)
           m1     == Put(meta_dict, "JFIF|Identifier", <<PyBytes(header), "", "", 1>>)
           m2     == Put(m1, "JFIF|Xthumbnail", <<PyStr(DecStr(0, xthumb[1])), "", "", 1>>)
           m3     == Put(m2, "JFIF|Ythumbnail", <<PyStr(DecStr(0, ythumb[1])), "", "", 1>>)
           msg    == VerifyMarkerMsg("APP0", <<255, 224>>, marker)
       IN  IF header \notin JfifHeaders
           THEN /\ pc' = "exited"
                /\ pos' = p3
                /\ diag' = diag \o msg \o <<"INVALID JFIF header: " \o BytesRepr(header)>>
                /\ UNCHANGED <<retval, meta_dict>>
           ELSE IF Len(xthumb) # 1
           THEN /\ pc' = "raised"
                /\ pos' = p5
                /\ diag' = diag \o msg
                /\ retval' = PyStr("struct.error")
                /\ meta_dict' = m1
           ELSE IF Len(ythumb) # 1
           THEN /\ pc' = "raised"
                /\ pos' = p6
                /\ diag' = diag \o msg
                /\ retval' = PyStr("struct.error")
                /\ meta_dict' = m2
           ELSE /\ pc' = "returned"
                /\ pos' = p6
                /\ diag' = diag \o msg
                /\ retval' = PyNone
                /\ meta_dict' = m3
    /\ UNCHANGED <<file, seg_offset, tiff_header, byte_order, offset_ifd, subifd_queue,
                   directory_entries, ifd_loop, walklog, scanvars, decvars, xmpvars,
                   metavars, listvars>>

\* the record a reader that is still to be written leaves
ToDoRecord == <<PyStr("offset = " \o DecStr(0, seg_offset)), "", "", 1>>

\* read_app1_xmpext
XmpExtSegment ==
    /\ pc = "xmpext"
    /\ diag' = diag \o VerifyMarkerMsg("APP1", <<255, 225>>, Read(file, seg_offset, 2))
    /\ pos' = AfterRead(file, seg_offset, 2 + 2 + 35)
    /\ meta_dict' = Put(meta_dict, "XMP-extended|///ToDo", ToDoRecord)
    /\ pc' = "returned"
    /\ retval' = PyNone
    /\ UNCHANGED <<file, seg_offset, tiff_header, byte_order, offset_ifd, subifd_queue,
                   directory_entries, ifd_loop, walklog, scanvars, decvars, xmpvars,
                   metavars, listvars>>

\* read_app12
App12Segment ==
    /\ pc = "app12"
    /\ diag' = diag \o VerifyMarkerMsg("APP12", <<255, 236>>, Read(file, seg_offset, 2))
    /\ pos' = AfterRead(file, seg_offset, 2)
    /\ meta_dict' = Put(meta_dict, "APP12|///ToDo", ToDoRecord)
    /\ pc' = "returned"
    /\ retval' = PyNone
    /\ UNCHANGED <<file, seg_offset, tiff_header, byte_order, offset_ifd, subifd_queue,
                   directory_entries, ifd_loop, walklog, scanvars, decvars, xmpvars,
                   metavars, listvars>>

\* read_app13
App13Segment ==
    /\ pc = "app13"
    /\ diag' = diag \o VerifyMarkerMsg("APP13", <<255, 237>>, Read(file, seg_offset, 2))
    /\ pos' = AfterRead(file, seg_offset, 2)
    /\ meta_dict' = Put(meta_dict, "APP13|///ToDo", ToDoRecord)
    /\ pc' = "returned"
    /\ retval' = PyNone
    /\ UNCHANGED <<file, seg_offset, tiff_header, byte_order, offset_ifd, subifd_queue,
                   directory_entries, ifd_loop, walklog, scanvars, decvars, xmpvars,
                   metavars, listvars>>

-----------------------------------------------------------------------------
(* bytes.decode('utf8') and the search for the closing tag                  *)

IsContinuation(b) == b >= 128 /\ b <= 191

\* the length of the UTF-8 sequence that starts at index i of bs, 0 if no
\* well-formed sequence starts there
Utf8Len(bs, i) ==
    LET b1      == bs[i]
        n       == CASE b1 < 128 -> 1
                     [] b1 >= 194 /\ b1 <= 223 -> 2
                     [] b1 >= 224 /\ b1 <= 239 -> 3
                     [] b1 >= 240 /\ b1 <= 244 -> 4
                     [] OTHER -> 0
        follows == \A j \in (i + 1)..(i + n - 1) : j <= Len(bs) /\ IsContinuation(bs[j])
        second  == CASE b1 = 224 -> bs[i + 1] >= 160
                     [] b1 = 237 -> bs[i + 1] <= 159
                     [] b1 = 240 -> bs[i + 1] >= 144
                     [] b1 = 244 -> bs[i + 1] <= 143
                     [] OTHER -> TRUE
    IN  IF n > 0 /\ follows /\ second THEN n ELSE 0

\* the indexes at which a character starts
Leads(bs) == { i \in 1..Len(bs) : ~IsContinuation(bs[i]) }

\* the bytes are well-formed UTF-8: decode('utf8') raises if they are not
Utf8Valid(bs) ==
    /\ bs # <<>> => 1 \in Leads(bs)
    /\ \A i \in Leads(bs) :
          /\ Utf8Len(bs, i) > 0
          /\ i + Utf8Len(bs, i) <= Len(bs) => (i + Utf8Len(bs, i)) \in Leads(bs)

\* the code point of the sequence at index i
Utf8Point(bs, i) ==
    LET low(j) == bs[j] % 64
    IN  CASE Utf8Len(bs, i) = 1 -> bs[i]
          [] Utf8Len(bs, i) = 2 -> (bs[i] % 32) * 64 + low(i + 1)
          [] Utf8Len(bs, i) = 3 -> ((bs[i] % 16) * 64 + low(i + 1)) * 64 + low(i + 2)
          [] OTHER -> (((bs[i] % 8) * 64 + low(i + 1)) * 64 + low(i + 2)) * 64 + low(i + 3)

\* bs.decode('utf8') of well-formed bytes, as the sequence of its code points
Utf8Text(bs) ==
    LET leads   == Leads(bs)
        nth(k)  == CHOOSE i \in leads : Cardinality({ j \in leads : j <= i }) = k
    IN  [k \in 1..Cardinality(leads) |-> Utf8Point(bs, nth(k))]

\* the pattern r'<\?xpacket end=[\'"]w[\'"]\?>' as the code points each of
\* its 19 places takes under re.I: a letter stands for both its cases, and k
\* for the Kelvin sign U+212A as well
Letter(c) == IF c = 107 THEN {c, c - 32, 8490} ELSE {c, c - 32}

ClosingTagPattern ==
    << {60}, {63}, Letter(120), Letter(112), Letter(97), Letter(99), Letter(107),
       Letter(101), Letter(116), {32}, Letter(101), Letter(110), Letter(100), {61},
       {39, 34}, Letter(119), {39, 34}, {63}, {62} >>

\* the 0-based indexes of text at which the pattern matches
ClosingTagSpans(text) ==
    { k \in 0..(Len(text) - Len(ClosingTagPattern)) :
        \A m \in 1..Len(ClosingTagPattern) : text[k + m] \in ClosingTagPattern[m] }

-----------------------------------------------------------------------------
(* xml.etree.ElementTree.fromstring on the packets of the files modelled:   *)
(* the elements that iter() yields for the packets that are well-formed     *)
(* XML; of the files' other packets none is, and fromstring raises          *)

RECURSIVE Ascii(_)
\* the bytes of a str of printable ASCII characters
Ascii(str_) ==
    IF str_ = "" THEN <<>>
    ELSE <<CHOOSE c \in 32..126 : chr(c) = CharAt(str_, 1)>>
         \o Ascii(SubSeq(str_, 2, Len(str_)))

\* an element in a namespace the table of xmpns_tagtype has, with text
PacketDc == Ascii("<a xmlns='" \o DcNs \o "'>v</a><?xpacket end='w'?>")

\* the same with an upper-case closing tag, double quotes and two bytes of
\* padding behind it
PacketUpper == Ascii("<a xmlns='" \o DcNs \o "'>v</a><?XPACKET END=\"W\"?>  ")

WellFormedPackets == { PacketDc, Prefix(PacketUpper, Len(PacketUpper) - 2), PacketUpper }

fromstring(packet) ==
    IF packet \in WellFormedPackets
    THEN [raised |-> "",
          children |-> << [ns |-> DcNs, name |-> "a", tag |-> "{" \o DcNs \o "}a",
                           text |-> PyStr("v")] >>]
    ELSE [raised |-> "ParseError", children |-> <<>>]

\* read_app1_xmp up to the for loop: the payload is read, decoded and
\* searched for the closing tag; without one a message is printed and the
\* function returns; with one the packet is cut out and parsed
XmpHeader ==
    /\ pc = "xmphead"
    /\ LET marker       == Read(file, seg_offset, 2)
           dsbytes      == Read(file, AfterRead(file, seg_offset, 2), 2)
           p2           == AfterRead(file, seg_offset, 2 + 2)
           p3           == AfterRead(file, seg_offset, 2 + 2 + 29)
           payload_size == UnpackBE16(dsbytes) - 29 - 2
           app1_payload == IF payload_size = -1 THEN Read(file, p3, Len(file))
                           ELSE Read(file, p3, payload_size)
           spans        == ClosingTagSpans(Utf8Text(app1_payload))
           span0        == CHOOSE k \in spans : \A j \in spans : k <= j
           closing_tag_pos == span0 + 2
           xmp_packet   == Prefix(app1_payload, closing_tag_pos + 19)
           parsed       == fromstring(xmp_packet)
           msg          == VerifyMarkerMsg("APP1", <<255, 225>>, marker)
           raise(e, p)  == /\ pc' = "raised"
                           /\ retval' = PyStr(e)
                           /\ pos' = p
                           /\ diag' = diag \o msg
                           /\ UNCHANGED xmpvars
       IN  IF Len(dsbytes) # 2 THEN raise("struct.error", p2)
           ELSE IF payload_size < -1 THEN raise("ValueError", p3)
           ELSE IF ~Utf8Valid(app1_payload)
           THEN raise("UnicodeDecodeError", p3 + Len(app1_payload))
           ELSE IF spans = {}
           THEN /\ pc' = "returned"
                /\ retval' = PyNone
                /\ pos' = p3 + Len(app1_payload)
                /\ diag' = diag \o msg \o
                      <<"ERROR: no closing tag found for XMP packet in APP1 segment!">>
                /\ UNCHANGED xmpvars
           ELSE IF ~Utf8Valid(xmp_packet)
           THEN raise("UnicodeDecodeError", p3 + Len(app1_payload))
           ELSE IF parsed.raised # ""
           THEN raise(parsed.raised, p3 + Len(app1_payload))
           ELSE /\ pc' = "xmp"
                /\ retval' = retval
                /\ pos' = p3 + Len(app1_payload)
                /\ diag' = diag \o msg
                /\ xmp_children' = parsed.children
                /\ xmp_done' = 0
    /\ UNCHANGED <<file, exifvars, scanvars, decvars, metavars, listvars>>

-----------------------------------------------------------------------------
(* exiferino.readmeta                                                       *)

\* the reader the if/elif chain of readmeta calls for a segment, as the
\* place where that reader starts; a segment of another kind has none
ReaderOf(segmark) ==
    CASE segmark = "APP0"        -> "jfif"
      [] segmark = "APP1-Exif"   -> "exif"
      [] segmark = "APP1-XMP"    -> "xmphead"
      [] segmark = "APP1-XMPext" -> "xmpext"
      [] segmark = "APP12"       -> "app12"
      [] segmark = "APP13"       -> "app13"
      [] OTHER                   -> "returned"

\* the for loop takes the next (segmark, seg_offset) of segment_list, when
\* segment_map or the reader of the segment before has returned
MetaDispatch ==
    /\ pc = "returned"
    /\ seg_index < Len(segments)
    /\ seg_index' = seg_index + 1
    /\ pc' = ReaderOf(segments[seg_index + 1][1])
    /\ seg_offset' = segments[seg_index + 1][2]
    /\ UNCHANGED <<file, pos, retval, diag, tiff_header, byte_order, offset_ifd,
                   subifd_queue, meta_dict, directory_entries, ifd_loop, walklog,
                   scanvars, decvars, xmpvars, listvars>>

\* the for loop is over: return metadata_list
MetaReturn ==
    /\ pc = "returned"
    /\ seg_index = Len(segments)
    /\ pc' = "metadone"
    /\ retval' = meta_dict
    /\ UNCHANGED <<file, pos, diag, exifvars, scanvars, decvars, xmpvars, metavars,
                   listvars>>

NextMeta ==
    \/ SeekStart \/ ReadMarker \/ ProbeApp1 \/ CheckStop \/ SkipPayload \/ Return
    \/ MetaDispatch \/ MetaReturn
    \/ JfifSegment \/ XmpExtSegment \/ App12Segment \/ App13Segment
    \/ ExifHeader \/ MainIfd \/ MainDone \/ Dequeue \/ SubIfd \/ SubDone
    \/ ReadIfdEntry \/ ReadIfdNext \/ ExifReturn
    \/ XmpHeader \/ XmpChild \/ XmpReturn

-----------------------------------------------------------------------------
(* The files readmeta is run on: two bytes, SOI or not, then up to          *)
(* MaxMetaSegs segments taken from MetaChunks, then EOI or nothing. A file  *)
(* without EOI may end within its last segment, where keep allows.          *)

MaxMetaSegs == 2

\* a piece that a file may end in: keep holds the lengths that may stay
MetaPiece(bs, t, keep) == [bytes |-> bs, tag |-> t, keep |-> keep]

Whole(bs, t) == MetaPiece(bs, t, {Len(bs)})

JfifBytes == Seg(224, <<74, 70, 73, 70, 0, 1, 1, 0, 0, 1, 0, 1, 0, 0>>)

\* APP1 Exif, little-endian, IFD0 with one SHORT entry (ImageWidth = 1)
ExifBytes ==
    Seg(225, ExifId \o II \o Enc16(II, 42) \o Enc32(II, 8) \o Enc16(II, 1)
             \o Enc16(II, 256) \o Enc16(II, 3) \o Enc32(II, 1) \o <<1, 0, 0, 0>>
             \o Enc32(II, 0))

\* APP1 Exif whose IFD0 holds a pointer to an empty Exif sub-IFD behind it
ExifSubBytes ==
    Seg(225, ExifId \o II \o Enc16(II, 42) \o Enc32(II, 8) \o Enc16(II, 1)
             \o Enc16(II, 34665) \o Enc16(II, 4) \o Enc32(II, 1) \o Enc32(II, 26)
             \o Enc32(II, 0) \o Enc16(II, 0) \o Enc32(II, 0))

\* a packet that lacks the closing tag, and one that lacks it and is not
\* UTF-8
PacketOpen == Ascii("<a xmlns='" \o DcNs \o "'>v</a>")

PacketBinary == <<255>> \o Ascii("<a/>")

\* a closing tag with no element before it
PacketBare == Ascii("<?xpacket end=\"w\"?>")

XmpBytes(packet) == Seg(225, XmpId \o packet)

MetaChunks ==
    { MetaPiece(JfifBytes, "APP0", 2..Len(JfifBytes)),
      MetaPiece(ExifBytes, "APP1-Exif", 10..Len(ExifBytes)),
      Whole(ExifSubBytes, "APP1-Exif"),
      MetaPiece(XmpBytes(PacketDc), "APP1-XMP",
                (Len(XmpBytes(PacketDc)) - 20)..Len(XmpBytes(PacketDc))),
      Whole(XmpBytes(PacketUpper), "APP1-XMP"),
      Whole(XmpBytes(PacketOpen), "APP1-XMP"),
      Whole(XmpBytes(PacketBinary), "APP1-XMP"),
      Whole(XmpBytes(PacketBare), "APP1-XMP"),
      Whole(Seg(225, XmpExtId \o <<60, 63>>), "APP1-XMPext"),
      Whole(Seg(236, <<1>>), "APP12"),
      Whole(Seg(237, <<1>>), "APP13"),
      Whole(Seg(219, <<1, 2>>), "DQT") }

RECURSIVE MetaChunkSeqs(_)
MetaChunkSeqs(n) ==
    IF n = 0 THEN { <<>> }
    ELSE LET shorter == MetaChunkSeqs(n - 1)
         IN  shorter \cup { Append(sq, c) : sq \in { t \in shorter : Len(t) = n - 1 },
                                            c \in MetaChunks }

\* the first two bytes of a file: SOI, or two bytes that are not a marker
FileStarts == { Whole(<<255, 216>>, "SOI"), Whole(<<0, 0>>, "other") }

EOIPiece == Whole(<<255, 217>>, "EOI")

InitMeta ==
    /\ \E st \in FileStarts, cs \in MetaChunkSeqs(MaxMetaSegs), ended \in BOOLEAN :
         LET ps == <<st>> \o cs \o (IF ended THEN <<EOIPiece>> ELSE <<>>)
         IN  \E keep \in Last(ps).keep :
               /\ file = SubSeq(Concat(ps), 1, PieceOffset(ps, Len(ps)) + keep)
               /\ layout = LayoutOf(ps)
               /\ shape = IF st.tag # "SOI" THEN "other"
                          ELSE IF ended THEN "wellformed" ELSE "truncated"
    /\ pos = 0
    /\ pc = "start"
    /\ segments = <<>> /\ seg_mark = <<>> /\ seg_id = ""
    /\ retval = <<>>
    /\ diag = <<>>
    /\ readlog = <<>> /\ marklog = <<>> /\ endcause = "none"
    /\ seg_offset = 0 /\ tiff_header = 0 /\ byte_order = <<>>
    /\ offset_ifd = PyNone /\ subifd_queue = <<>> /\ meta_dict = <<>>
    /\ directory_entries = 0 /\ ifd_loop = "" /\ walklog = <<>>
    /\ DecIdle
    /\ XmpIdle
    /\ MetaIdle
    /\ ListIdle

SpecMeta == InitMeta /\ [][NextMeta]_vars

-----------------------------------------------------------------------------
(* Claims about readmeta                                                    *)

\* the payload that read_app1_xmp is about to read: what the file has of the
\* bytes that the length field of the segment at seg_offset counts, past
\* the 29 bytes of the identifier
XmpPayloadAhead ==
    Read(file, seg_offset + 4 + 29, LengthAt(file, seg_offset + 2) - 2 - 29)

\* ASCII letters in lower case
Lower(b) == IF b >= 65 /\ b <= 90 THEN b + 32 ELSE b

\* the bytes hold a closing processing instruction <?xpacket end="w"?>, with
\* single or double quotes and letters of either case
HasClosingTag(bs) ==
    \E k \in 0..(Len(bs) - 19) :
       /\ \A m \in 1..14 : Lower(bs[k + m]) = Ascii("<?xpacket end=")[m]
       /\ bs[k + 15] \in {39, 34}
       /\ Lower(bs[k + 16]) = 119
       /\ bs[k + 17] \in {39, 34}
       /\ bs[k + 18] = 63 /\ bs[k + 19] = 62

\* C11: when the payload of an APP1-XMP segment has no closing tag,
\* read_app1_xmp writes no record, leaves the metadata as it was and
\* returns, so that readmeta goes on with the segments that follow: its
\* for loop takes the next entry of the list wherever a reader has returned.
C11_NoClosingTagSkipsSegment ==
    [][ (pc = "xmphead" /\ ~HasClosingTag(XmpPayloadAhead)) =>
           /\ meta_dict' = meta_dict
           /\ pc' = "returned"
           /\ UNCHANGED <<seg_index, segments>>
      ]_vars

\* C12: a file whose first two bytes are not FF D8 is not accepted: no
\* segment and no metadata is taken from it.
C12_NonSoiFileRejected ==
    Prefix(file, 2) # <<255, 216>> =>
       /\ segments = <<>>
       /\ DOMAIN meta_dict = {}
       /\ pc # "metadone"

\* the file ends within the JFIF header of its last segment, or within the
\* IFD of its last segment: in the entry count, the entry or the offset of
\* the next IFD
CutInDecoded ==
    LET last == Last(layout)
        have == Len(file) - last[2]
    IN  \/ last[1] = "APP0" /\ have >= 4 /\ have < Len(JfifBytes)
        \/ last[1] = "APP1-Exif" /\ have >= 18 /\ have < Len(ExifBytes)

\* C16: when the file ends in the middle of a segment being decoded,
\* readmeta neither raises nor exits, and what it returns are the records
\* collected up to that point.
C16_TruncationReturnsCollected ==
    CutInDecoded =>
       /\ pc \notin {"raised", "exited"}
       /\ pc = "metadone" => retval = meta_dict

====

